---------------------------- MODULE Spec2Model ----------------------------
(***************************************************************************)
(* A model of the UFC events scraper: the orchestrator's discovery and     *)
(* reconciliation (scrape_ufc.py), the adapters' fight extraction          *)
(* (scrapers/*.py) and the fighter-identity resolver (wikipedia_ufc.py).   *)
(*                                                                         *)
(* Text is modelled as a sequence of one-character strings, so that        *)
(* lower(), strip(), "in", re.sub and split() are computed as Python       *)
(* computes them.  Dates ('YYYY-MM-DD' strings in the code) are day        *)
(* numbers.  None is the value None.                                       *)
(***************************************************************************)
EXTENDS Integers, Sequences, FiniteSets, TLC

VARIABLES
    \* UFCScraper._discover_events (SpecDiscover)
    pc, mode, discoverCalls, wikipedia_events, discovered, unique_events,
    \* UFCScraper._deduplicate_events on its own (SpecDedup)
    dedupInput, dedupOutput, dedupDone,
    \* the adapters' fight extraction (SpecFights): where the extraction is,
    \* which path produced the list, the document read, the list returned
    fpc, path, doc, returned_fights,
    \* WikipediaUFCScraper._fetch_fighter_record (SpecResolve)
    fighter_database, database_loaded, fetch_name, fetch_result,
    \* FighterRecord through its record string and back (SpecRecord)
    rpc, render_style, fighter_record, record_string, parsed_record,
    \* DatabaseManager: the two tables, and what save_event was last given (SpecStore)
    db_events, db_fights, last_saved, save_result,
    \* UFCScraper.scrape_events under cli.run_scraper (SpecScrape): where the run is,
    \* its arguments, the adapter calls made, the candidates, the loop index,
    \* the events collected and what the run reported
    spc, s_mode, s_since, s_event_id, calls, s_discovered, discovered_events, details_i, scraped_events, run_output,
    \* WikipediaUFCScraper._parse_fight_text on its own (SpecParseText): the parts the
    \* text was written from, the text, the dict returned
    tpc, text_parts, fight_text, parsed_text,
    \* WikipediaUFCScraper._parse_event_details (SpecDetails): the event id and the
    \* page, the name and date extracted, the extractions attempted, the fights
    \* and the event returned
    dpc, d_event_id, d_page, d_name, d_date, d_attempts, d_fights, d_event,
    \* concurrent _fetch_fighter_record calls on one adapter (SpecLoad): where each
    \* call is, the adapter's fields, data/fighter_database.json, how often the
    \* registry was loaded or built, the values self.fighter_database was given
    lpc, scraper, database_file, loads, assigned,
    \* RateLimiter.wait called by one caller at a time (SpecLimiter): the clock, the
    \* limiter's fields, where the call is, when its sleep ends, and for each wait
    \* whether it slept and when it returned
    wpc, now, min_interval, last_request_time, wake_at, slept, returns,
    \* RateLimiter.wait called by several coroutines (SpecShared): where each
    \* coroutine is and when its sleep ends, the clock, the limiter's fields, and
    \* the calls and returns of wait() in the order they happened
    cpc, co_wake_at, clock, limiter, wait_log,
    \* the rows _extract_fight_card_with_records collects (SpecCard): where the
    \* collection is, the rows of the table, the rows collected
    kpc, table_rows, raw_fights,
    \* the requests of one adapter operation (SpecRequests): where it is, which
    \* operation, the fetch attempt, the search patterns and URL variants left,
    \* and the limiter waits and requests in the order they were made
    npc, operation, attempt, patterns_left, variants_left, request_log,
    \* an adapter's ordered selectors on an events page (SpecSelect): where the
    \* search is, the adapter, the matches each selector has on the page, the
    \* selectors consulted and the selector used
    qpc, select_adapter, match_counts, consulted, used,
    \* one save_event call, statement by statement (SpecSave): where the call is,
    \* its event and loop index, the tables as the connection sees them and as
    \* committed, the tables when the call began, the statement that raised and
    \* what the call returned
    vpc, save_arg, save_i, conn_tables, disk_tables, before_call, failed_at, save_returned

discoverVars == <<pc, mode, discoverCalls, wikipedia_events, discovered, unique_events>>
dedupVars    == <<dedupInput, dedupOutput, dedupDone>>
fightVars    == <<fpc, path, doc, returned_fights>>
resolveVars  == <<fighter_database, database_loaded, fetch_name, fetch_result>>
recordVars   == <<rpc, render_style, fighter_record, record_string, parsed_record>>
storeVars    == <<db_events, db_fights, last_saved, save_result>>
scrapeVars   == <<spc, s_mode, s_since, s_event_id, calls, s_discovered, discovered_events, details_i, scraped_events, run_output>>
parseVars    == <<tpc, text_parts, fight_text, parsed_text>>
detailsVars  == <<dpc, d_event_id, d_page, d_name, d_date, d_attempts, d_fights, d_event>>
loadVars     == <<lpc, scraper, database_file, loads, assigned>>
limiterVars  == <<wpc, now, min_interval, last_request_time, wake_at, slept, returns>>
sharedVars   == <<cpc, co_wake_at, clock, limiter, wait_log>>
cardVars     == <<kpc, table_rows, raw_fights>>
netVars      == <<npc, operation, attempt, patterns_left, variants_left, request_log>>
selectVars   == <<qpc, select_adapter, match_counts, consulted, used>>
saveVars     == <<vpc, save_arg, save_i, conn_tables, disk_tables, before_call, failed_at, save_returned>>
coreVars     == <<discoverVars, dedupVars, fightVars, resolveVars>>
restVars     == <<recordVars, storeVars, scrapeVars, parseVars, detailsVars, loadVars, limiterVars, sharedVars, cardVars, netVars, selectVars, saveVars>>
\* what the actions of SpecRecord leave alone
exceptRecord == <<coreVars, storeVars, scrapeVars, parseVars, detailsVars, loadVars, limiterVars, sharedVars, cardVars, netVars, selectVars, saveVars>>
\* what the actions of SpecStore leave alone
exceptStore == <<coreVars, recordVars, scrapeVars, parseVars, detailsVars, loadVars, limiterVars, sharedVars, cardVars, netVars, selectVars, saveVars>>
\* what the actions of SpecScrape leave alone
exceptScrape == <<coreVars, recordVars, storeVars, parseVars, detailsVars, loadVars, limiterVars, sharedVars, cardVars, netVars, selectVars, saveVars>>
\* what the actions of SpecParseText leave alone
exceptParseText == <<coreVars, recordVars, storeVars, scrapeVars, detailsVars, loadVars, limiterVars, sharedVars, cardVars, netVars, selectVars, saveVars>>
\* what the actions of SpecDetails leave alone
exceptDetails == <<coreVars, recordVars, storeVars, scrapeVars, parseVars, loadVars, limiterVars, sharedVars, cardVars, netVars, selectVars, saveVars>>
\* what the actions of SpecLoad leave alone
exceptLoad == <<coreVars, recordVars, storeVars, scrapeVars, parseVars, detailsVars, limiterVars, sharedVars, cardVars, netVars, selectVars, saveVars>>
\* what the actions of SpecLimiter leave alone
exceptLimiter == <<coreVars, recordVars, storeVars, scrapeVars, parseVars, detailsVars, loadVars, sharedVars, cardVars, netVars, selectVars, saveVars>>
\* what the actions of SpecShared leave alone
exceptShared == <<coreVars, recordVars, storeVars, scrapeVars, parseVars, detailsVars, loadVars, limiterVars, cardVars, netVars, selectVars, saveVars>>
\* what the actions of SpecCard leave alone
exceptCard == <<coreVars, recordVars, storeVars, scrapeVars, parseVars, detailsVars, loadVars, limiterVars, sharedVars, netVars, selectVars, saveVars>>
\* what the actions of SpecRequests leave alone
exceptRequests == <<coreVars, recordVars, storeVars, scrapeVars, parseVars, detailsVars, loadVars, limiterVars, sharedVars, cardVars, selectVars, saveVars>>
\* what the actions of SpecSelect leave alone
exceptSelect == <<coreVars, recordVars, storeVars, scrapeVars, parseVars, detailsVars, loadVars, limiterVars, sharedVars, cardVars, netVars, saveVars>>
\* what the actions of SpecSave leave alone
exceptSave == <<coreVars, recordVars, storeVars, scrapeVars, parseVars, detailsVars, loadVars, limiterVars, sharedVars, cardVars, netVars, selectVars>>
vars         == <<coreVars, restVars>>

None == "None"

--------------------------------------------------------------------------
(* Bounds *)

\* longest candidate list one adapter's discover_events returns
MaxEvents == 2
\* longest list handed to _deduplicate_events on its own
MaxDedupLen == 2
\* event dates are the days 1..MaxDate
MaxDate == 2

--------------------------------------------------------------------------
(* Python str operations on sequences of characters *)

UpperCase == <<"A","B","C","D","E","F","G","H","I","J","K","L","M",
               "N","O","P","Q","R","S","T","U","V","W","X","Y","Z">>
LowerCase == <<"a","b","c","d","e","f","g","h","i","j","k","l","m",
               "n","o","p","q","r","s","t","u","v","w","x","y","z">>

LowerChar(c) ==
    IF \E i \in 1..26 : UpperCase[i] = c
    THEN LowerCase[CHOOSE i \in 1..26 : UpperCase[i] = c]
    ELSE c

\* str.lower()
Lower(s) == [i \in 1..Len(s) |-> LowerChar(s[i])]

IsSpace(c) == c \in {" ", "\t", "\n"}

SetMin(S) == CHOOSE x \in S : \A y \in S : x <= y
SetMax(S) == CHOOSE x \in S : \A y \in S : x >= y

\* str.strip()
Strip(s) ==
    LET keep == {i \in 1..Len(s) : ~IsSpace(s[i])}
    IN  IF keep = {} THEN <<>> ELSE SubSeq(s, SetMin(keep), SetMax(keep))

\* sub in s
Contains(s, sub) ==
    \E i \in 0..(Len(s) - Len(sub)) : SubSeq(s, i + 1, i + Len(sub)) = sub

\* all sequences over S of length at most n
SeqsUpTo(S, n) == UNION {[1..k -> S] : k \in 0..n}

\* Body(value), with value computed once
With(value, Body(_)) == CHOOSE r \in {Body(v) : v \in {value}} : TRUE

--------------------------------------------------------------------------
(* Candidate events: the dicts the adapters' discover_events return *)

Sources == {"wikipedia", "ufcstats", "ufc_official"}

\* link texts of event rows, before the adapter strips them
EventLinkTexts ==
    { <<"U","F","C">>, <<"u","f","c">>, <<"U","F","C"," ">>, <<"F","N">> }

Dates == 1..MaxDate

\* datetime.now().strftime('%Y-%m-%d'): the date UFC.com candidates carry
Today == MaxDate

Event(name, date, source) == [name |-> name, date |-> date, source |-> source]

--------------------------------------------------------------------------
(* UFCScraper._deduplicate_events *)

\* a bug: the key keeps the name's case and padding
DedupKeyRawName(event) == <<event.date, event.name>>

\* key = (event.get('date'), event.get('name', '').lower().strip())
DedupKey(event) == <<event.date, Strip(Lower(event.name))>>

\* a bug: a later entry with a seen key replaces the kept one (last-seen-wins)
RECURSIVE DedupLoopLastWins(_, _, _, _)
DedupLoopLastWins(events, i, seen, unique) ==
    IF i > Len(events) THEN unique
    ELSE LET key == DedupKey(events[i])
         IN  IF key \notin seen
             THEN DedupLoopLastWins(events, i + 1, seen \cup {key}, Append(unique, events[i]))
             ELSE DedupLoopLastWins(events, i + 1, seen,
                      [j \in 1..Len(unique) |->
                          IF DedupKey(unique[j]) = key THEN events[i] ELSE unique[j]])

\* for event in events: if key not in seen: seen.add(key); unique.append(event)
RECURSIVE DedupLoop(_, _, _, _)
DedupLoop(events, i, seen, unique) ==
    IF i > Len(events) THEN unique
    ELSE LET key == DedupKey(events[i])
         IN  IF key \notin seen
             THEN DedupLoop(events, i + 1, seen \cup {key}, Append(unique, events[i]))
             ELSE DedupLoop(events, i + 1, seen, unique)

DeduplicateEvents(events) == DedupLoop(events, 1, {}, <<>>)

--------------------------------------------------------------------------
(* SpecDedup: _deduplicate_events applied to any candidate list *)

AnyEvents ==
    {Event(n, d, s) : n \in EventLinkTexts, d \in Dates, s \in Sources}

DedupIdle == dedupInput = <<>> /\ dedupOutput = <<>> /\ dedupDone = FALSE

\* no record being rendered or parsed
RecordIdle ==
    /\ rpc = "idle" /\ render_style = <<>> /\ fighter_record = <<>>
    /\ record_string = <<>> /\ parsed_record = <<>>

\* no database opened
StoreIdle ==
    /\ db_events = <<>> /\ db_fights = <<>>
    /\ last_saved = <<>> /\ save_result = <<>>

\* no run under way
ScrapeIdle ==
    /\ spc = "idle" /\ s_mode = None /\ s_since = <<>> /\ s_event_id = <<>>
    /\ calls = <<>> /\ s_discovered = <<>> /\ discovered_events = <<>>
    /\ details_i = 0 /\ scraped_events = <<>> /\ run_output = <<>>

\* no text being parsed
ParseTextIdle ==
    /\ tpc = "idle" /\ text_parts = <<>> /\ fight_text = <<>> /\ parsed_text = <<>>

\* no event page being parsed
DetailsIdle ==
    /\ dpc = "idle" /\ d_event_id = <<>> /\ d_page = <<>> /\ d_name = <<>> /\ d_date = <<>>
    /\ d_attempts = <<>> /\ d_fights = <<>> /\ d_event = <<>>

\* no resolve call on the adapter
LoadIdle ==
    /\ lpc = <<>> /\ scraper = <<>> /\ database_file = <<>> /\ loads = 0 /\ assigned = <<>>

\* no rate limiter in use
LimiterIdle ==
    /\ wpc = "idle" /\ now = 0 /\ min_interval = 0 /\ last_request_time = <<>> /\ wake_at = 0
    /\ slept = <<>> /\ returns = <<>>

\* no shared rate limiter in use
SharedIdle ==
    /\ cpc = <<>> /\ co_wake_at = <<>> /\ clock = 0 /\ limiter = <<>> /\ wait_log = <<>>

\* no table being collected
CardIdle ==
    /\ kpc = "idle" /\ table_rows = <<>> /\ raw_fights = <<>>

\* no adapter operation under way
RequestsIdle ==
    /\ npc = "idle" /\ operation = None /\ attempt = 0 /\ patterns_left = 0 /\ variants_left = 0
    /\ request_log = <<>>

\* no selector being tried
SelectIdle ==
    /\ qpc = "idle" /\ select_adapter = None /\ match_counts = <<>> /\ consulted = <<>> /\ used = 0

\* no save_event call under way
SaveIdle ==
    /\ vpc = "off" /\ save_arg = <<>> /\ save_i = 0 /\ conn_tables = <<>> /\ disk_tables = <<>>
    /\ before_call = <<>> /\ failed_at = None /\ save_returned = <<>>

\* the components of the later specifications are idle
RestIdle == RecordIdle /\ StoreIdle /\ ScrapeIdle /\ ParseTextIdle /\ DetailsIdle /\ LoadIdle /\ LimiterIdle /\ SharedIdle /\ CardIdle /\ RequestsIdle /\ SelectIdle /\ SaveIdle

IdleExceptRecord == StoreIdle /\ ScrapeIdle /\ ParseTextIdle /\ DetailsIdle /\ LoadIdle /\ LimiterIdle /\ SharedIdle /\ CardIdle /\ RequestsIdle /\ SelectIdle /\ SaveIdle
IdleExceptStore == RecordIdle /\ ScrapeIdle /\ ParseTextIdle /\ DetailsIdle /\ LoadIdle /\ LimiterIdle /\ SharedIdle /\ CardIdle /\ RequestsIdle /\ SelectIdle /\ SaveIdle
IdleExceptScrape == RecordIdle /\ StoreIdle /\ ParseTextIdle /\ DetailsIdle /\ LoadIdle /\ LimiterIdle /\ SharedIdle /\ CardIdle /\ RequestsIdle /\ SelectIdle /\ SaveIdle
IdleExceptParseText == RecordIdle /\ StoreIdle /\ ScrapeIdle /\ DetailsIdle /\ LoadIdle /\ LimiterIdle /\ SharedIdle /\ CardIdle /\ RequestsIdle /\ SelectIdle /\ SaveIdle
IdleExceptDetails == RecordIdle /\ StoreIdle /\ ScrapeIdle /\ ParseTextIdle /\ LoadIdle /\ LimiterIdle /\ SharedIdle /\ CardIdle /\ RequestsIdle /\ SelectIdle /\ SaveIdle
IdleExceptLoad == RecordIdle /\ StoreIdle /\ ScrapeIdle /\ ParseTextIdle /\ DetailsIdle /\ LimiterIdle /\ SharedIdle /\ CardIdle /\ RequestsIdle /\ SelectIdle /\ SaveIdle
IdleExceptLimiter == RecordIdle /\ StoreIdle /\ ScrapeIdle /\ ParseTextIdle /\ DetailsIdle /\ LoadIdle /\ SharedIdle /\ CardIdle /\ RequestsIdle /\ SelectIdle /\ SaveIdle
IdleExceptShared == RecordIdle /\ StoreIdle /\ ScrapeIdle /\ ParseTextIdle /\ DetailsIdle /\ LoadIdle /\ LimiterIdle /\ CardIdle /\ RequestsIdle /\ SelectIdle /\ SaveIdle
IdleExceptCard == RecordIdle /\ StoreIdle /\ ScrapeIdle /\ ParseTextIdle /\ DetailsIdle /\ LoadIdle /\ LimiterIdle /\ SharedIdle /\ RequestsIdle /\ SelectIdle /\ SaveIdle
IdleExceptRequests == RecordIdle /\ StoreIdle /\ ScrapeIdle /\ ParseTextIdle /\ DetailsIdle /\ LoadIdle /\ LimiterIdle /\ SharedIdle /\ CardIdle /\ SelectIdle /\ SaveIdle
IdleExceptSelect == RecordIdle /\ StoreIdle /\ ScrapeIdle /\ ParseTextIdle /\ DetailsIdle /\ LoadIdle /\ LimiterIdle /\ SharedIdle /\ CardIdle /\ RequestsIdle /\ SaveIdle
IdleExceptSave == RecordIdle /\ StoreIdle /\ ScrapeIdle /\ ParseTextIdle /\ DetailsIdle /\ LoadIdle /\ LimiterIdle /\ SharedIdle /\ CardIdle /\ RequestsIdle /\ SelectIdle

\* no extraction under way
FightsIdle == fpc = "idle" /\ path = None /\ doc = <<>> /\ returned_fights = <<>>

\* the scraper as constructed: fighter_database = None, _database_loaded = False
ResolveIdle ==
    /\ fighter_database = <<>>
    /\ database_loaded = FALSE
    /\ fetch_name = <<>>
    /\ fetch_result = <<>>

InitDedup ==
    /\ dedupInput \in SeqsUpTo(AnyEvents, MaxDedupLen)
    /\ dedupOutput = <<>>
    /\ dedupDone = FALSE

Deduplicate ==
    /\ ~dedupDone
    /\ dedupOutput' = DeduplicateEvents(dedupInput)
    /\ dedupDone' = TRUE
    /\ UNCHANGED dedupInput

NextDedup == Deduplicate /\ UNCHANGED <<discoverVars, fightVars, resolveVars, restVars>>

--------------------------------------------------------------------------
(* SpecDiscover: UFCScraper._discover_events, one action per awaited call *)

Modes == {"full", "future", "historical"}

\* what one adapter's page can yield: its link texts stripped, its source tag
AdapterEvents(source, dates) ==
    {Event(Strip(t), d, source) : t \in EventLinkTexts, d \in dates}

\* WikipediaUFCScraper.discover_events: [] when the fetch fails, else the rows kept
WikipediaResults == SeqsUpTo(AdapterEvents("wikipedia", Dates), MaxEvents)

\* UFCStatsScaper.discover_events: no fetch and [] unless mode is full or historical
UFCStatsResults(m) ==
    IF m \in {"full", "historical"}
    THEN SeqsUpTo(AdapterEvents("ufcstats", Dates), MaxEvents)
    ELSE {<<>>}

\* UFCOfficialScraper.discover_events: every candidate is dated today
UFCOfficialResults == SeqsUpTo(AdapterEvents("ufc_official", {Today}), MaxEvents)

\* a bug: the fallback sources are always queried
UseFallbackAlways(wiki) == TRUE

\* if not wikipedia_events:
UseFallback(wiki) == wiki = <<>>

DiscoverIdle ==
    /\ pc = "idle"
    /\ mode = None
    /\ discoverCalls = <<>>
    /\ wikipedia_events = <<>>
    /\ discovered = <<>>
    /\ unique_events = <<>>

InitDiscover ==
    /\ pc = "start"
    /\ mode = None
    /\ discoverCalls = <<>>
    /\ wikipedia_events = <<>>
    /\ discovered = <<>>
    /\ unique_events = <<>>

\* scrape_events(mode, since, event_id=None) enters _discover_events
StartDiscovery ==
    /\ pc = "start"
    /\ \E m \in Modes : mode' = m
    /\ pc' = "wikipedia"
    /\ UNCHANGED <<discoverCalls, wikipedia_events, discovered, unique_events>>
    /\ UNCHANGED <<dedupVars, fightVars, resolveVars, restVars>>

\* await self.wikipedia.discover_events(mode, since), then on to the next await
\* or, with candidates in hand, through the deduplication to the return
WikipediaDiscover ==
    /\ pc = "wikipedia"
    /\ \E evs \in WikipediaResults :
         /\ wikipedia_events' = evs
         /\ discovered' = discovered \o evs
         /\ discoverCalls' = Append(discoverCalls, "wikipedia")
         /\ IF UseFallback(evs)
            THEN pc' = "ufcstats" /\ UNCHANGED unique_events
            ELSE pc' = "done" /\ unique_events' = DeduplicateEvents(discovered')
    /\ UNCHANGED mode
    /\ UNCHANGED <<dedupVars, fightVars, resolveVars, restVars>>

\* await self.ufc_stats.discover_events(mode, since)
UFCStatsDiscover ==
    /\ pc = "ufcstats"
    /\ \E evs \in UFCStatsResults(mode) :
         /\ discovered' = discovered \o evs
         /\ discoverCalls' = Append(discoverCalls, "ufcstats")
    /\ pc' = "ufc_official"
    /\ UNCHANGED <<mode, wikipedia_events, unique_events>>
    /\ UNCHANGED <<dedupVars, fightVars, resolveVars, restVars>>

\* await self.ufc_official.discover_events(mode, since), then the deduplication
UFCOfficialDiscover ==
    /\ pc = "ufc_official"
    /\ \E evs \in UFCOfficialResults :
         /\ discovered' = discovered \o evs
         /\ discoverCalls' = Append(discoverCalls, "ufc_official")
         /\ unique_events' = DeduplicateEvents(discovered')
    /\ pc' = "done"
    /\ UNCHANGED <<mode, wikipedia_events>>
    /\ UNCHANGED <<dedupVars, fightVars, resolveVars, restVars>>

NextDiscover ==
    \/ StartDiscovery
    \/ WikipediaDiscover
    \/ UFCStatsDiscover
    \/ UFCOfficialDiscover

InitSpecDiscover == InitDiscover /\ DedupIdle /\ FightsIdle /\ ResolveIdle /\ RestIdle

SpecDiscover == InitSpecDiscover /\ [][NextDiscover]_vars

InitSpecDedup == InitDedup /\ DiscoverIdle /\ FightsIdle /\ ResolveIdle /\ RestIdle

SpecDedup == InitSpecDedup /\ [][NextDedup]_vars

--------------------------------------------------------------------------
(* Texts of the fight cards, and Python's re on them *)

\* Optional[...]: absent, or one value
Absent == <<>>
Some(x) == <<x>>

Main_card        == <<"M","a","i","n"," ","c","a","r","d">>
Preliminary_card == <<"P","r","e","l","i","m","i","n","a","r","y"," ","c","a","r","d">>
Early_prelims    == <<"E","a","r","l","y"," ","p","r","e","l","i","m","s">>
Notes            == <<"N","o","t","e","s">>
Weight_class     == <<"W","e","i","g","h","t"," ","c","l","a","s","s">>
Method           == <<"M","e","t","h","o","d">>
Unknown          == <<"U","n","k","n","o","w","n">>
Fly              == <<"F","l","y">>
Championship     == <<"C","h","a","m","p","i","o","n","s","h","i","p">>
Fly_title        == <<"F","l","y"," ","t","i","t","l","e">>
KO               == <<"K","O">>
Al               == <<"A","l">>
Al_c             == <<"A","l"," ","(","c",")">>
Bo               == <<"B","o">>
Bo_C             == <<"B","o"," ","(","C",")">>
Cy_i             == <<"C","y"," ","(","i",")">>
Only_c           == <<"(","c",")">>
def_             == <<"d","e","f",".">>
vs_              == <<"v","s",".">>
Empty            == <<>>

\* the first index of s at or after i where P holds, 0 when there is none
FirstFrom(s, i, P(_)) ==
    LET hit == {j \in i..Len(s) : P(s[j])}
    IN  IF hit = {} THEN 0 ELSE SetMin(hit)

NotSpace(c) == ~IsSpace(c)
IsClose(c) == c = ")"

\* re.sub(r'\s*\([^)]*\)', '', s), scanning from index i
RECURSIVE SubParens(_, _)
SubParens(s, i) ==
    IF i > Len(s) THEN <<>>
    ELSE LET j == FirstFrom(s, i, NotSpace)
             k == IF j # 0 /\ s[j] = "(" THEN FirstFrom(s, j + 1, IsClose) ELSE 0
         IN  IF k # 0 THEN SubParens(s, k + 1)
             ELSE <<s[i]>> \o SubParens(s, i + 1)

\* a bug: the marker is removed before it is looked for
IsChampionAfterCleanup(raw) == Contains(Lower(Strip(SubParens(raw, 1))), <<"(", "c", ")">>)

\* bool(re.search(r'\(c\)', raw, re.IGNORECASE))
IsChampion(raw) == Contains(Lower(raw), <<"(", "c", ")">>)

\* re.sub(r'\s*\([^)]*\)', '', raw).strip()
CleanName(raw) == Strip(SubParens(raw, 1))

--------------------------------------------------------------------------
(* models.ufc_models.Fight *)

Segments == {"main-card", "prelims", "early-prelims"}

\* the fields of Fight the adapters set; row is not a field of the class: it
\* records which row, item or competition of the document the fight came from
Fight(bout_order, fighter1, fighter2, weight_class, title_fight, method, winner, segment, row) ==
    [bout_order |-> bout_order, fighter1 |-> fighter1, fighter2 |-> fighter2,
     weight_class |-> weight_class, title_fight |-> title_fight,
     method |-> method, winner |-> winner, segment |-> segment, row |-> row]

\* the Field constraints pydantic enforces when a Fight is constructed:
\* bout_order >= 1, name min_length 1 (Fighter), weight_class min_length 1
FightIsValid(f) ==
    /\ f.bout_order >= 1
    /\ Len(f.fighter1) >= 1
    /\ Len(f.fighter2) >= 1
    /\ Len(f.weight_class) >= 1

--------------------------------------------------------------------------
(* WikipediaUFCScraper: the structured fight card (table.toccolours) *)

\* a <tr>: its cells' texts, and whether the cells are <th>
TableRow(th, cells) == [th |-> th, cells |-> cells]

\* fight_data, the dict _parse_fight_row and _parse_fight_text return; winner
\* and method are absent when the dict has no such key
FightData(f1, f2, c1, c2, winner, method, wc, row) ==
    [fighter1 |-> f1, fighter2 |-> f2,
     fighter1_is_champion |-> c1, fighter2_is_champion |-> c2,
     is_title_fight |-> (c1 \/ c2),
     winner |-> winner, method |-> method, weight_class |-> wc, row |-> row]

\* col_map.get(key, default), col_map = {text: i for i, text in enumerate(header_texts)}
ColGet(header_texts, key, default) ==
    LET at == {i \in 1..Len(header_texts) : header_texts[i] = key}
    IN  IF at = {} THEN default ELSE SetMax(at) - 1

\* a bug: the winner is the raw cell text, marker included
RowWinnerRaw(fighter1) == fighter1

\* winner = fighter1; winner_clean = re.sub(r'\s*\([^)]*\)', '', winner).strip()
RowWinner(fighter1) == CleanName(fighter1)

\* _parse_fight_row(rows[i]); cell indices count from 0 as in the code
ParseFightRow(rows, i) ==
    LET cells == rows[i].cells
        n == Len(cells)
    IN  IF n < 5 THEN Absent
        ELSE IF i = 1 THEN Absent   \* row.find_previous('tr') is None: AttributeError
        ELSE
        LET prev == rows[i - 1]
            header_texts == IF prev.th
                            THEN [j \in 1..Len(prev.cells) |-> Lower(Strip(prev.cells[j]))]
                            ELSE <<>>
            wc_col == ColGet(header_texts, Lower(Weight_class), 0)
            fighter1_col == ColGet(header_texts, <<"f","i","g","h","t","e","r"," ","1">>, 1)
            fighter2_col == ColGet(header_texts, <<"f","i","g","h","t","e","r"," ","2">>, 3)
            method_col == ColGet(header_texts, Lower(Method), 4)
        IN  IF wc_col >= n \/ fighter1_col >= n \/ fighter2_col >= n
            THEN Absent             \* IndexError
            ELSE
            LET weight_class == Strip(cells[wc_col + 1])
                fighter1 == Strip(cells[fighter1_col + 1])
                fighter2 == Strip(cells[fighter2_col + 1])
                method == IF n > method_col THEN Strip(cells[method_col + 1]) ELSE Empty
            IN  Some(FightData(CleanName(fighter1), CleanName(fighter2),
                               IsChampion(fighter1), IsChampion(fighter2),
                               Some(RowWinner(fighter1)), Some(method), weight_class, i))

\* a bug: 'early' is not looked at
NextSegmentNoEarly(current_segment, header_text) ==
    IF Contains(header_text, Lower(Main_card)) THEN "main-card"
    ELSE IF Contains(header_text, <<"p","r","e","l","i","m">>) THEN "prelims"
    ELSE current_segment

\* the segment after a single-cell row with this (lower-cased) text
NextSegment(current_segment, header_text) ==
    IF Contains(header_text, Lower(Main_card)) THEN "main-card"
    ELSE IF \/ Contains(header_text, Lower(Preliminary_card))
            \/ Contains(header_text, <<"p","r","e","l","i","m">>)
         THEN IF Contains(header_text, <<"e","a","r","l","y">>)
              THEN "early-prelims" ELSE "prelims"
    ELSE current_segment

\* segments[name].append(fight_data); the dict keeps its keys in insertion order
SegmentsAdd(segments, name, new) ==
    IF \E k \in 1..Len(segments) : segments[k].name = name
    THEN [k \in 1..Len(segments) |->
             IF segments[k].name = name
             THEN [name |-> name, fights |-> segments[k].fights \o new]
             ELSE segments[k]]
    ELSE Append(segments, [name |-> name, fights |-> new])

\* _parse_fight_segments: the while loop from row i on
RECURSIVE ParseFightSegments(_, _, _, _)
ParseFightSegments(rows, i, current_segment, segments) ==
    IF i > Len(rows) THEN segments
    ELSE LET cells == rows[i].cells
         IN  IF Len(cells) = 1
             THEN ParseFightSegments(rows, i + 1,
                      NextSegment(current_segment, Lower(cells[1])), segments)
             ELSE IF Len(cells) > 1
             THEN IF Contains(Lower(cells[1]), Lower(Weight_class))
                  THEN ParseFightSegments(rows, i + 1, current_segment, segments)
                  ELSE ParseFightSegments(rows, i + 1, current_segment,
                           SegmentsAdd(segments, current_segment, ParseFightRow(rows, i)))
             ELSE ParseFightSegments(rows, i + 1, current_segment, segments)

\* for segment_name, segment_fights in segments.items(): raw_fights_data.append(...)
RECURSIVE RawFightsData(_, _)
RawFightsData(segments, k) ==
    IF k > Len(segments) THEN <<>>
    ELSE [j \in 1..Len(segments[k].fights) |->
             [fight_data |-> segments[k].fights[j], segment |-> segments[k].name]]
         \o RawFightsData(segments, k + 1)

\* if method is not None and method.strip() == "": method = None; winner = None
\* if winner is not None and winner.strip() == "": winner = None
CleanResult(method, winner) ==
    LET blank == method # Absent /\ Strip(method[1]) = Empty
        m == IF blank THEN Absent ELSE method
        w0 == IF blank THEN Absent ELSE winner
        w == IF w0 # Absent /\ Strip(w0[1]) = Empty THEN Absent ELSE w0
    IN  [method |-> m, winner |-> w]

\* the title_fight of _create_fight_with_records
TitleFightOf(fight_data) ==
    IF fight_data.is_title_fight THEN "undisputed"
    ELSE IF \/ Contains(Lower(fight_data.weight_class), Lower(Championship))
            \/ Contains(Lower(fight_data.weight_class), <<"t","i","t","l","e">>)
         THEN "undisputed"
    ELSE "none"

\* _create_fight_with_records: the Fight, or absent when its construction raises
CreateFightWithRecords(fight_data, bout_order, segment) ==
    LET res == CleanResult(fight_data.method, fight_data.winner)
        fight == Fight(bout_order, fight_data.fighter1, fight_data.fighter2,
                       fight_data.weight_class, TitleFightOf(fight_data),
                       res.method, res.winner, segment, fight_data.row)
    IN  IF FightIsValid(fight) THEN Some(fight) ELSE Absent

\* for i, (fight_data, segment_name) in enumerate(raw_fights_data):
\*     bout_order = total_fights - i
RECURSIVE CardFights(_, _)
CardFights(raw_fights_data, j) ==
    IF j > Len(raw_fights_data) THEN <<>>
    ELSE CreateFightWithRecords(raw_fights_data[j].fight_data,
                                Len(raw_fights_data) - (j - 1),
                                raw_fights_data[j].segment)
         \o CardFights(raw_fights_data, j + 1)

\* _extract_fight_card_with_records; a page without table.toccolours has no
\* fight card section
ExtractFightCardWithRecords(page) ==
    IF ~page.has_table THEN <<>>
    ELSE With(RawFightsData(ParseFightSegments(page.rows, 1, "main-card", <<>>), 1),
              LAMBDA raw_fights_data : CardFights(raw_fights_data, 1))

--------------------------------------------------------------------------
(* WikipediaUFCScraper._parse_fight_text: the two re.search patterns *)

IsWsRun(s, a, b) == a <= b /\ \A j \in a..b : IsSpace(s[j])

\* '.' does not match a newline
NoNewline(s, a, b) == \A j \in a..b : s[j] # "\n"

HasAt(s, p, lit) == p >= 1 /\ p + Len(lit) - 1 <= Len(s) /\ SubSeq(s, p, p + Len(lit) - 1) = lit

\* the end of the line that position a is on
LineEnd(s, a) == SetMax({e \in a..Len(s) : NoNewline(s, a, e)})

\* r'\s+(.+)' from position p: the ends of \s+ that leave (.+) a character
TailWsEnds(s, p) == {c \in p..(Len(s) - 1) : IsWsRun(s, p, c) /\ s[c + 1] # "\n"}

\* (.+) after the greedy \s+ that starts at p
TailGroup(s, p) ==
    LET c == SetMax(TailWsEnds(s, p)) IN SubSeq(s, c + 1, LineEnd(s, c + 1))

\* r'\s+' then the literal, from position q (after position q - 1): where the
\* literal starts, 0 when this does not match
LiteralAfterWs(s, q, lit) ==
    LET k == FirstFrom(s, q, NotSpace)
    IN  IF k > q /\ HasAt(s, k, lit) THEN k ELSE 0

\* r'\s+(?:via|by)' from position q: the position after the keyword, 0 for no match
MethodFrom(s, q) ==
    IF LiteralAfterWs(s, q, <<"v","i","a">>) # 0 THEN LiteralAfterWs(s, q, <<"v","i","a">>) + 3
    ELSE IF LiteralAfterWs(s, q, <<"b","y">>) # 0 THEN LiteralAfterWs(s, q, <<"b","y">>) + 2
    ELSE 0

\* (.+?) from position a, then r'\s+(?:via|by)\s+(.+)': the ends of (.+?)
LoserEnds(s, a) ==
    {e \in a..Len(s) : /\ NoNewline(s, a, e)
                       /\ MethodFrom(s, e + 1) # 0
                       /\ TailWsEnds(s, MethodFrom(s, e + 1)) # {}}

\* r'\s+(.+?)...' after 'def.' at position k: the starts of (.+?)
LoserStarts(s, k) ==
    {a \in (k + 5)..Len(s) : IsWsRun(s, k + 4, a - 1) /\ LoserEnds(s, a) # {}}

\* r'(.+?)\s+def\.\s+(.+?)\s+(?:via|by)\s+(.+)': the ends e of the first group
\* for a match that starts at st
DefEnds(s, st) ==
    {e \in st..Len(s) : /\ NoNewline(s, st, e)
                        /\ LiteralAfterWs(s, e + 1, def_) # 0
                        /\ LoserStarts(s, LiteralAfterWs(s, e + 1, def_)) # {}}

\* re.search of the 'def.' pattern: the groups, or absent. The leftmost start,
\* the lazy groups as short and the greedy \s+ as long as a match allows.
SearchDef(s) ==
    With({st \in 1..Len(s) : DefEnds(s, st) # {}}, LAMBDA sts :
        IF sts = {} THEN Absent
        ELSE With(SetMin(DefEnds(s, SetMin(sts))), LAMBDA e1 :
             With(SetMax(LoserStarts(s, LiteralAfterWs(s, e1 + 1, def_))), LAMBDA a :
             With(SetMin(LoserEnds(s, a)), LAMBDA e2 :
                 Some([winner |-> SubSeq(s, SetMin(sts), e1),
                       loser  |-> SubSeq(s, a, e2),
                       method |-> TailGroup(s, MethodFrom(s, e2 + 1))])))))

\* r'vs\.?' at position k: the position after it (the '.' is taken when there)
AfterVs(s, k) == IF HasAt(s, k + 2, <<".">>) THEN k + 3 ELSE k + 2

\* r'(.+?)\s+vs\.?\s+(.+)': the ends of the first group for a match starting at st
VsEnds(s, st) ==
    {e \in st..Len(s) : /\ NoNewline(s, st, e)
                        /\ LiteralAfterWs(s, e + 1, <<"v","s">>) # 0
                        /\ TailWsEnds(s, AfterVs(s, LiteralAfterWs(s, e + 1, <<"v","s">>))) # {}}

\* re.search of the 'vs' pattern: the groups, or absent
SearchVs(s) ==
    With({st \in 1..Len(s) : VsEnds(s, st) # {}}, LAMBDA sts :
        IF sts = {} THEN Absent
        ELSE With(SetMin(VsEnds(s, SetMin(sts))), LAMBDA e1 :
                 Some([fighter1 |-> SubSeq(s, SetMin(sts), e1),
                       fighter2 |-> TailGroup(s, AfterVs(s, LiteralAfterWs(s, e1 + 1, <<"v","s">>)))])))

\* _parse_fight_text with 'winner' taken from the second group
ParseFightTextLoserWins(text, row) ==
    With(SearchDef(text), LAMBDA def_match :
        IF def_match # Absent
        THEN Some(FightData(CleanName(def_match[1].winner), CleanName(def_match[1].loser),
                            IsChampion(def_match[1].winner), IsChampion(def_match[1].loser),
                            Some(CleanName(def_match[1].loser)),
                            Some(Strip(def_match[1].method)), Unknown, row))
        ELSE Absent)

\* _parse_fight_text(text), weight_class left at its default "Unknown"
ParseFightText(text, row) ==
    With(SearchDef(text), LAMBDA def_match :
        IF def_match # Absent
        THEN Some(FightData(CleanName(def_match[1].winner), CleanName(def_match[1].loser),
                            IsChampion(def_match[1].winner), IsChampion(def_match[1].loser),
                            Some(CleanName(def_match[1].winner)),
                            Some(Strip(def_match[1].method)), Unknown, row))
        ELSE With(SearchVs(text), LAMBDA vs_match :
            IF vs_match # Absent
            THEN Some(FightData(CleanName(vs_match[1].fighter1), CleanName(vs_match[1].fighter2),
                                IsChampion(vs_match[1].fighter1), IsChampion(vs_match[1].fighter2),
                                Absent, Absent, Unknown, row))
            ELSE Absent))

--------------------------------------------------------------------------
(* WikipediaUFCScraper: the results-section fallback *)

\* a sibling of the "Results" heading: its tag name and its texts (the text
\* of a <p>, the texts of the <li> of a <ul> or <ol>)
Element(name, texts) == [name |-> name, texts |-> texts]

\* the position in the document of text j of sibling e
DocRow(e, j) == e * 10 + j

\* _parse_fight_text, then _create_fight_with_records(fight_data, bout_order, "main-card")
TextFight(text, bout_order, row) ==
    With(ParseFightText(text, row), LAMBDA fight_data :
        IF fight_data = Absent THEN Absent
        ELSE CreateFightWithRecords(fight_data[1], bout_order, "main-card"))

\* for item in current_element.find_all('li'): ...; break
RECURSIVE ItemsLoop(_, _, _, _, _)
ItemsLoop(items, e, j, bout_order, fights) ==
    IF j > Len(items) THEN fights
    ELSE With(TextFight(items[j], bout_order, DocRow(e, j)), LAMBDA fight :
             IF fight # Absent
             THEN ItemsLoop(items, e, j + 1, bout_order + 1, fights \o fight)
             ELSE ItemsLoop(items, e, j + 1, bout_order, fights))

\* while current_element: ... current_element = current_element.find_next_sibling()
RECURSIVE ResultsLoop(_, _, _, _)
ResultsLoop(siblings, e, bout_order, fights) ==
    IF e > Len(siblings) THEN fights
    ELSE LET el == siblings[e]
         IN  IF el.name \in {"ul", "ol"}
             THEN ItemsLoop(el.texts, e, 1, bout_order, fights)
             ELSE IF el.name = "p"
             THEN With(TextFight(el.texts[1], bout_order, DocRow(e, 0)), LAMBDA fight :
                      IF fight # Absent
                      THEN ResultsLoop(siblings, e + 1, bout_order + 1, fights \o fight)
                      ELSE ResultsLoop(siblings, e + 1, bout_order, fights))
             ELSE IF el.name \in {"h2", "h3", "table"} THEN fights
             ELSE ResultsLoop(siblings, e + 1, bout_order, fights)

\* _extract_fights_from_results_section_with_records; bout_order starts at 1
ExtractFightsFromResultsSection(page) ==
    IF ~page.has_results THEN <<>>
    ELSE ResultsLoop(page.siblings, 1, 1, <<>>)

--------------------------------------------------------------------------
(* The reversal the UFCStats, UFC.com and ESPN adapters end with *)

Reverse(s) == [i \in 1..Len(s) |-> s[Len(s) + 1 - i]]

\* fights.reverse(); for i, fight in enumerate(fights): fight.bout_order = i + 1
Renumber(fights) ==
    [i \in 1..Len(fights) |-> [Reverse(fights)[i] EXCEPT !.bout_order = i]]

\* 'title' in weight_class.lower() or 'championship' in weight_class.lower()
TitleByWeightClass(weight_class) ==
    IF \/ Contains(Lower(weight_class), <<"t","i","t","l","e">>)
       \/ Contains(Lower(weight_class), Lower(Championship))
    THEN "undisputed" ELSE "none"

--------------------------------------------------------------------------
(* UFCStatsScaper._extract_fights *)

\* str.split(sep) for a one-character sep, the text from index i on
RECURSIVE Split(_, _, _)
Split(s, sep, i) ==
    LET at == {j \in i..Len(s) : s[j] = sep}
    IN  IF at = {} THEN <<SubSeq(s, i, Len(s))>>
        ELSE <<SubSeq(s, i, SetMin(at) - 1)>> \o Split(s, sep, SetMin(at) + 1)

\* a tr.b-fight-details__table-row: whether it carries the header class, its
\* number of <td>, and the texts of cols[0], the <a> of cols[1], cols[6], cols[7]
StatsRow(is_header, ncols, result_text, fighter_links, weight_class, method_text) ==
    [is_header |-> is_header, ncols |-> ncols, result_text |-> result_text,
     fighter_links |-> fighter_links, weight_class |-> weight_class,
     method_text |-> method_text]

\* UFCStatsScaper._parse_fight_row(row, bout_order)
StatsParseFightRow(row, bout_order, pos) ==
    IF row.ncols < 8 THEN Absent
    ELSE IF Len(row.fighter_links) < 2 THEN Absent
    ELSE
    LET fighter1_name == Strip(row.fighter_links[1])
        fighter2_name == Strip(row.fighter_links[2])
        result_text == Strip(row.result_text)
        parts == Split(result_text, "-", 1)
        has_result == result_text # Empty /\ result_text # <<"W","/","L">> /\ Len(parts) >= 2
        winner == IF has_result
                  THEN Some(IF parts[1] = <<"W">> THEN fighter1_name ELSE fighter2_name)
                  ELSE Absent
        method0 == IF has_result /\ Len(parts) > 2 THEN Some(parts[Len(parts)]) ELSE Absent
        weight_class == Strip(row.weight_class)
        method_text == Strip(row.method_text)
        method == IF method_text # Empty /\ method_text # <<"-","-">>
                  THEN Some(method_text) ELSE method0
        fight == Fight(bout_order, fighter1_name, fighter2_name, weight_class,
                       TitleByWeightClass(weight_class), method, winner, None, pos)
    IN  IF FightIsValid(fight) THEN Some(fight) ELSE Absent

\* for row in fight_rows: ... (rows from index i on)
RECURSIVE StatsRowsLoop(_, _, _, _)
StatsRowsLoop(fight_rows, i, bout_order, fights) ==
    IF i > Len(fight_rows) THEN fights
    ELSE IF fight_rows[i].is_header
    THEN StatsRowsLoop(fight_rows, i + 1, bout_order, fights)
    ELSE LET fight == StatsParseFightRow(fight_rows[i], bout_order, i)
         IN  IF fight # Absent
             THEN StatsRowsLoop(fight_rows, i + 1, bout_order + 1, fights \o fight)
             ELSE StatsRowsLoop(fight_rows, i + 1, bout_order, fights)

StatsExtractFights(fight_rows) == Renumber(StatsRowsLoop(fight_rows, 1, 1, <<>>))

--------------------------------------------------------------------------
(* UFCOfficialScraper._extract_fights *)

\* an element of class c-listing-fight: the texts of its name elements and of
\* its weight-class element, when it has one
FightElement(names, weight) == [names |-> names, weight |-> weight]

\* UFCOfficialScraper._parse_fight_element(elem, bout_order), then fight.segment
OfficialParseFightElement(elem, bout_order, segment, pos) ==
    IF Len(elem.names) < 2 THEN Absent
    ELSE
    LET weight_class == IF elem.weight = Absent THEN Unknown ELSE Strip(elem.weight[1])
        fight == Fight(bout_order, Strip(elem.names[1]), Strip(elem.names[2]), weight_class,
                       TitleByWeightClass(weight_class), Absent, Absent, segment, pos)
    IN  IF FightIsValid(fight) THEN Some(fight) ELSE Absent

\* for fight_elem in segment_fights: ... (elements from index j on)
RECURSIVE OfficialElemsLoop(_, _, _, _, _, _)
OfficialElemsLoop(elems, j, bout_order, fights, segment, base) ==
    IF j > Len(elems) THEN fights
    ELSE LET fight == OfficialParseFightElement(elems[j], bout_order, segment, DocRow(base, j))
         IN  IF fight # Absent
             THEN OfficialElemsLoop(elems, j + 1, bout_order + 1, fights \o fight, segment, base)
             ELSE OfficialElemsLoop(elems, j + 1, bout_order, fights, segment, base)

\* where soup.find(id=key) is in page.sections (the sections in document
\* order), 0 when there is no such section
SectionAt(page, key) ==
    LET at == {k \in 1..Len(page.sections) : page.sections[k].key = key}
    IN  IF at = {} THEN 0 ELSE SetMin(at)

\* _extract_fight_segments: the keys of the dict, in its order. The page has
\* no h2, h3 or h4 naming a card, so the dict is {} when no section has fights.
OfficialSegments(page) ==
    SelectSeq(<<"main-card", "prelims", "early-prelims">>,
              LAMBDA key : SectionAt(page, key) # 0
                           /\ page.sections[SectionAt(page, key)].elems # <<>>)

\* for segment_name, segment_fights in segments.items(): ...
RECURSIVE OfficialSegmentsLoop(_, _, _, _)
OfficialSegmentsLoop(page, keys, k, fights) ==
    IF k > Len(keys) THEN fights
    ELSE OfficialSegmentsLoop(page, keys, k + 1,
             OfficialElemsLoop(page.sections[SectionAt(page, keys[k])].elems, 1,
                               Len(fights) + 1, fights, keys[k], SectionAt(page, keys[k])))

\* _extract_fights: the segments, or else the elements the generic selectors find
OfficialExtractFights(page) ==
    IF OfficialSegments(page) # <<>>
    THEN Renumber(OfficialSegmentsLoop(page, OfficialSegments(page), 1, <<>>))
    ELSE Renumber(OfficialElemsLoop(page.loose, 1, 1, <<>>, None, 0))

--------------------------------------------------------------------------
(* ESPNMMAScraper._extract_fights *)

\* a competition: how many competitors it lists, their athletes' displayName,
\* weightClass.displayName, titleBout, status.type.completed, which competitor
\* the winner id names (0: no winner, 3: neither), result.description
Competition(competitors, names, weight_class, titleBout, completed, winner, description) ==
    [competitors |-> competitors, names |-> names, weight_class |-> weight_class,
     titleBout |-> titleBout, completed |-> completed, winner |-> winner,
     description |-> description]

\* the Fight(...) one competition gives, before pydantic validates it
EspnFight(competition, bout_order, pos) ==
    LET fighter1_name == competition.names[1]
        fighter2_name == competition.names[2]
        winner == IF competition.completed /\ competition.winner = 1 THEN Some(fighter1_name)
                  ELSE IF competition.completed /\ competition.winner = 2 THEN Some(fighter2_name)
                  ELSE Absent
        method == IF competition.completed THEN competition.description ELSE Absent
    IN  Fight(bout_order, fighter1_name, fighter2_name, competition.weight_class,
              IF competition.titleBout THEN "undisputed" ELSE "none",
              method, winner, None, pos)

\* for competition in competitions: ...; raised when a Fight's construction raises
RECURSIVE EspnLoop(_, _, _)
EspnLoop(competitions, i, fights) ==
    IF i > Len(competitions) THEN [raised |-> FALSE, fights |-> fights]
    ELSE IF competitions[i].competitors < 2 THEN EspnLoop(competitions, i + 1, fights)
    ELSE LET fight == EspnFight(competitions[i], Len(fights) + 1, i)
         IN  IF FightIsValid(fight)
             THEN EspnLoop(competitions, i + 1, Append(fights, fight))
             ELSE [raised |-> TRUE, fights |-> <<>>]

\* _extract_fights(competitions): the list returned, unless an exception left it
EspnExtractFights(competitions) ==
    LET r == EspnLoop(competitions, 1, <<>>)
    IN  [raised |-> r.raised, fights |-> Renumber(r.fights)]

--------------------------------------------------------------------------
(* WikipediaUFCScraper._fetch_fighter_record and _names_match_fuzzy *)

\* s.replace(a, b) for a one-character a; b is a text
ReplaceChar(s, a, b) ==
    LET F[i \in 0..Len(s)] ==
            IF i = 0 THEN <<>>
            ELSE F[i - 1] \o (IF s[i] = a THEN b ELSE <<s[i]>>)
    IN  F[Len(s)]

\* s.replace('  ', ' '): one pass from the left over the text from index i on
RECURSIVE ReplaceDoubleSpace(_, _)
ReplaceDoubleSpace(s, i) ==
    IF i > Len(s) THEN <<>>
    ELSE IF i < Len(s) /\ s[i] = " " /\ s[i + 1] = " "
    THEN <<" ">> \o ReplaceDoubleSpace(s, i + 2)
    ELSE <<s[i]>> \o ReplaceDoubleSpace(s, i + 1)

\* s.split(): the words between runs of whitespace, from index i on
RECURSIVE SplitWords(_, _)
SplitWords(s, i) ==
    LET a == FirstFrom(s, i, NotSpace)
        b == IF a = 0 THEN 0 ELSE FirstFrom(s, a, IsSpace)
    IN  IF a = 0 THEN <<>>
        ELSE IF b = 0 THEN <<SubSeq(s, a, Len(s))>>
        ELSE <<SubSeq(s, a, b - 1)>> \o SplitWords(s, b)

\* name.replace('.', '').replace('-', ' ').replace('  ', ' ')
CleanVariations(name) ==
    ReplaceDoubleSpace(ReplaceChar(ReplaceChar(name, ".", <<>>), "-", <<" ">>), 1)

\* _names_match_fuzzy(target_name, candidate_name)
NamesMatchFuzzy(target_name, candidate_name) ==
    LET target == Strip(Lower(target_name))
        candidate == Strip(Lower(candidate_name))
        target_clean == CleanVariations(target)
        candidate_clean == CleanVariations(candidate)
        target_words == SplitWords(target_clean, 1)
        candidate_words == SplitWords(candidate_clean, 1)
    IN  \/ target = candidate
        \/ target_clean = candidate_clean
        \/ /\ Len(target_words) >= 2
           /\ Len(candidate_words) >= 2
           /\ target_words[1] = candidate_words[1]
           /\ target_words[Len(target_words)] = candidate_words[Len(candidate_words)]

\* an item of self.fighter_database: the key, and the Fighter's record_breakdown
RegistryEntry(name, record_breakdown) ==
    [name |-> name, record_breakdown |-> record_breakdown]

\* the lookup of _fetch_fighter_record in a loaded database (the dict's items
\* in their order): the exact key, then the first fuzzy match with a record
LookupRecord(database, fighter_name) ==
    LET fighter_key == Strip(Lower(fighter_name))
        exact == {k \in 1..Len(database) : /\ database[k].name = fighter_key
                                           /\ database[k].record_breakdown # Absent}
        fuzzy == {k \in 1..Len(database) : /\ NamesMatchFuzzy(fighter_name, database[k].name)
                                           /\ database[k].record_breakdown # Absent}
    IN  IF database = <<>> THEN Absent
        ELSE IF exact # {} THEN database[SetMin(exact)].record_breakdown
        ELSE IF fuzzy # {} THEN database[SetMin(fuzzy)].record_breakdown
        ELSE Absent

--------------------------------------------------------------------------
(* The documents the extraction is run on *)

\* rows of a fight-card table, elements after a Results heading, rows of a
\* UFCStats table, competitions of an ESPN event: at most this many
MaxRows == 3
\* fight elements in one section of a UFC.com page: at most this many
MaxElems == 1

\* the rows a table.toccolours is made of: segment headers, the column
\* header, fight rows (weight class, fighter 1, 'def.', fighter 2, method),
\* a row with too few cells
WikiRows ==
    {TableRow(TRUE, <<t>>) : t \in {Main_card, Preliminary_card, Early_prelims, Notes}}
    \cup {TableRow(TRUE, <<Weight_class, Empty, Empty, Empty, Method>>),
          TableRow(FALSE, <<Fly, Al>>)}
    \cup {TableRow(FALSE, <<c[1], c[2], def_, c[3], c[4]>>) :
            c \in {<<Fly, Al_c, Bo, KO>>, <<Fly, Al, Bo, KO>>, <<Empty, Al, Bo, KO>>,
                   <<Fly, Cy_i, Bo_C, Empty>>, <<Fly_title, Al, Bo, KO>>}}

Al_def_Bo    == Al \o <<" ">> \o def_ \o <<" ">> \o Bo \o <<" ","b","y"," ">> \o KO
Al_def_blank == Al \o <<" ">> \o def_ \o <<" ">> \o Bo \o <<" ","b","y"," "," ">>
Al_c_vs_Bo   == Al_c \o <<" ">> \o vs_ \o <<" ">> \o Bo
c_vs_Bo      == Only_c \o <<" ">> \o vs_ \o <<" ">> \o Bo

\* the siblings a Results heading can have
WikiElements ==
    {Element("p", <<t>>) : t \in {Al_def_Bo, Al_def_blank, Al_c_vs_Bo, c_vs_Bo, Notes}}
    \cup {Element("ul", <<Al_def_Bo, Al_c_vs_Bo>>), Element("ol", <<c_vs_Bo, Al_def_Bo>>),
          Element("h2", <<>>), Element("div", <<>>)}

\* event pages: with a table.toccolours and a one-paragraph Results section,
\* with a Results section only, with neither
WikiPages ==
    {[has_table |-> TRUE, rows |-> r, has_results |-> TRUE,
      siblings |-> <<Element("p", <<Al_def_Bo>>)>>] : r \in SeqsUpTo(WikiRows, MaxRows)}
    \cup {[has_table |-> FALSE, rows |-> <<>>, has_results |-> TRUE, siblings |-> s] :
            s \in SeqsUpTo(WikiElements, MaxRows)}
    \cup {[has_table |-> FALSE, rows |-> <<>>, has_results |-> FALSE, siblings |-> <<>>]}

W_U_D == <<"W","-","U","-","D">>
W_D   == <<"W","-","D">>
L_D   == <<"L","-","D">>

\* rows of class b-fight-details__table-row
StatsRows ==
    {StatsRow(TRUE, 10, Empty, <<>>, Empty, Empty),
     StatsRow(FALSE, 7, W_D, <<Al, Bo>>, Fly, KO),
     StatsRow(FALSE, 10, W_D, <<Al>>, Fly, KO),
     StatsRow(FALSE, 10, W_D, <<Al, Bo>>, Empty, KO)}
    \cup {StatsRow(FALSE, 10, c[1], <<Al, Bo>>, Fly, c[2]) :
            c \in {<<W_U_D, <<"-","-">> >>, <<W_D, <<"-","-">> >>, <<W_D, Empty>>,
                   <<L_D, KO>>, <<<<"w","i","n">>, KO>>, <<<<"W","/","L">>, Empty>>}}

\* elements of class c-listing-fight
OfficialElements ==
    {FightElement(<<Al, Bo>>, Some(Fly)), FightElement(<<Al, Bo>>, Absent),
     FightElement(<<Al>>, Some(Fly)), FightElement(<<Al, Bo>>, Some(Empty))}

\* event pages of UFC.com: the fight elements outside any section, or the
\* three sections, the main card first or last in the document
OfficialPages ==
    {[sections |-> <<>>, loose |-> l] : l \in SeqsUpTo(OfficialElements, MaxRows)}
    \cup {[sections |-> IF main_first
                        THEN <<[key |-> "main-card", elems |-> m],
                               [key |-> "prelims", elems |-> p],
                               [key |-> "early-prelims", elems |-> e]>>
                        ELSE <<[key |-> "early-prelims", elems |-> e],
                               [key |-> "prelims", elems |-> p],
                               [key |-> "main-card", elems |-> m]>>,
           loose |-> <<>>] :
            m \in SeqsUpTo(OfficialElements, MaxElems),
            p \in SeqsUpTo(OfficialElements, MaxElems),
            e \in SeqsUpTo(OfficialElements, MaxElems),
            main_first \in BOOLEAN}

\* competitions of an ESPN event
Competitions ==
    {Competition(1, <<Al>>, Fly, FALSE, FALSE, 0, Absent),
     Competition(2, <<Al, Bo>>, Fly, FALSE, FALSE, 0, Absent),
     Competition(2, <<Al, Bo>>, Fly, TRUE, TRUE, 1, Some(KO)),
     Competition(2, <<Al, Bo>>, Fly, FALSE, TRUE, 2, Absent),
     Competition(2, <<Al, Bo>>, Fly, FALSE, TRUE, 0, Some(KO)),
     Competition(2, <<Al, Bo>>, Fly, FALSE, TRUE, 3, Some(KO)),
     Competition(2, <<Empty, Bo>>, Fly, FALSE, FALSE, 0, Absent)}

--------------------------------------------------------------------------
(* SpecFights: one event's fights are extracted by one adapter *)

InitFights == fpc = "start" /\ path = None /\ doc = <<>> /\ returned_fights = <<>>

\* WikipediaUFCScraper._parse_event_details up to `if not fights:`
WikipediaExtractCard ==
    /\ fpc = "start"
    /\ \E page \in WikiPages :
         /\ doc' = page
         /\ returned_fights' = ExtractFightCardWithRecords(page)
    /\ path' = "wikipedia_card"
    /\ fpc' = IF returned_fights' = <<>> THEN "results" ELSE "done"
    /\ UNCHANGED <<discoverVars, dedupVars, resolveVars, restVars>>

\* ... and, no fight found in the card, the fallback to the results section
WikipediaExtractResults ==
    /\ fpc = "results"
    /\ returned_fights' = ExtractFightsFromResultsSection(doc)
    /\ path' = "wikipedia_results"
    /\ fpc' = "done"
    /\ UNCHANGED doc
    /\ UNCHANGED <<discoverVars, dedupVars, resolveVars, restVars>>

\* UFCStatsScaper._extract_fights(soup)
UFCStatsExtract ==
    /\ fpc = "start"
    /\ \E fight_rows \in SeqsUpTo(StatsRows, MaxRows) :
         /\ doc' = fight_rows
         /\ returned_fights' = StatsExtractFights(fight_rows)
    /\ path' = "ufcstats"
    /\ fpc' = "done"
    /\ UNCHANGED <<discoverVars, dedupVars, resolveVars, restVars>>

\* UFCOfficialScraper._extract_fights(soup)
UFCOfficialExtract ==
    /\ fpc = "start"
    /\ \E page \in OfficialPages :
         /\ doc' = page
         /\ returned_fights' = OfficialExtractFights(page)
    /\ path' = "ufc_official"
    /\ fpc' = "done"
    /\ UNCHANGED <<discoverVars, dedupVars, resolveVars, restVars>>

\* ESPNMMAScraper._extract_fights(competitions); when it raises,
\* _parse_event_details returns None and no fight list is returned
ESPNExtract ==
    /\ fpc = "start"
    /\ \E competitions \in SeqsUpTo(Competitions, MaxRows) :
         /\ doc' = competitions
         /\ returned_fights' = EspnExtractFights(competitions).fights
         /\ fpc' = IF EspnExtractFights(competitions).raised THEN "failed" ELSE "done"
    /\ path' = "espn"
    /\ UNCHANGED <<discoverVars, dedupVars, resolveVars, restVars>>

NextFights ==
    \/ WikipediaExtractCard
    \/ WikipediaExtractResults
    \/ UFCStatsExtract
    \/ UFCOfficialExtract
    \/ ESPNExtract

InitSpecFights == InitFights /\ DiscoverIdle /\ DedupIdle /\ ResolveIdle /\ RestIdle

SpecFights == InitSpecFights /\ [][NextFights]_vars

--------------------------------------------------------------------------
(* SpecResolve: fighter names are resolved against the registry *)

\* items of the registry: at most this many
MaxRegistry == 2

Al_Bo == <<"A","l"," ","B","o">>

\* the names bouts carry
FighterNames ==
    {Al_Bo, <<"A","l"," "," ","B","o">>, <<"A","l","-","B","o">>,
     <<"A","l"," ","C","y"," ","B","o">>, <<"C","y"," ","B","o">>}

\* the keys of the registry (lower-cased when it is loaded)
RegistryKeys ==
    {Lower(Al_Bo), <<"b","o",","," ","a","l">>, <<"b","o"," ","a","l">>,
     <<"a","l"," ","c","y"," ","b","o">>, <<"c","y"," ","b","o">>}

\* FighterRecord(wins=..., losses=..., draws=None, no_contests=None)
FighterRecords ==
    {[wins |-> 1, losses |-> 0, draws |-> Absent, no_contests |-> Absent],
     [wins |-> 2, losses |-> 1, draws |-> Absent, no_contests |-> Absent]}

\* what _load_fighter_database can leave in self.fighter_database: the items
\* of a dict (no key twice), {} when loading failed
Registries ==
    LET entries == {RegistryEntry(k, r) : k \in RegistryKeys,
                                          r \in {Absent} \cup {Some(x) : x \in FighterRecords}}
    IN  {d \in SeqsUpTo(entries, MaxRegistry) :
            \A i, j \in 1..Len(d) : i # j => d[i].name # d[j].name}

\* _fetch_fighter_record(fighter_name): the database is loaded by the first
\* call and kept by the later ones; then the lookup
FetchFighterRecord ==
    /\ IF database_loaded
       THEN UNCHANGED fighter_database
       ELSE fighter_database' \in Registries
    /\ database_loaded' = TRUE
    /\ \E fighter_name \in FighterNames :
         /\ fetch_name' = fighter_name
         /\ fetch_result' = LookupRecord(fighter_database', fighter_name)
    /\ UNCHANGED <<discoverVars, dedupVars, fightVars, restVars>>

NextResolve == FetchFighterRecord

InitSpecResolve == ResolveIdle /\ DiscoverIdle /\ DedupIdle /\ FightsIdle /\ RestIdle

SpecResolve == InitSpecResolve /\ [][NextResolve]_vars

--------------------------------------------------------------------------
(* FighterRecord and its record string: FighterRecord.to_record_string and
   UFCFighterDatabaseScraper._parse_record_string *)

\* largest wins, losses, draws and no-contests of the records tried
MaxWins == 10
MaxLosses == 1
MaxDraws == 1
MaxNoContests == 1

DigitChars == <<"0","1","2","3","4","5","6","7","8","9">>

\* \d
IsDigit(c) == \E d \in 1..10 : DigitChars[d] = c

\* the character U+2013 (en dash)
EnDash == "en-dash"

\* [-\u2013]
IsDash(c) == c \in {"-", EnDash}

\* str(n), n >= 0
RECURSIVE Str(_)
Str(n) == IF n < 10 THEN <<DigitChars[n + 1]>>
          ELSE Str(n \div 10) \o <<DigitChars[(n % 10) + 1]>>

\* int(digits)
RECURSIVE ToInt(_)
ToInt(digits) ==
    IF digits = <<>> THEN 0
    ELSE 10 * ToInt(SubSeq(digits, 1, Len(digits) - 1))
         + ((CHOOSE d \in 1..10 : DigitChars[d] = digits[Len(digits)]) - 1)

\* the end of the longest run of digits of s that starts at i (i - 1: none)
DigitRunEnd(s, i) ==
    SetMax({i - 1} \cup {j \in i..Len(s) : \A k \in i..j : IsDigit(s[k])})

\* FighterRecord(wins, losses, draws, no_contests); draws and no_contests
\* are Optional[int]
FighterRecord(wins, losses, draws, no_contests) ==
    [wins |-> wins, losses |-> losses, draws |-> draws, no_contests |-> no_contests]

\* whether to_record_string writes an optional count: always (an absent
\* count as 0), when it is present, or when it is positive
ShowStyles == {"always", "present", "positive"}

Shows(style, count) ==
    CASE style = "always"   -> TRUE
      [] style = "present"  -> count # Absent
      [] style = "positive" -> count # Absent /\ count[1] > 0

CountOf(count) == IF count = Absent THEN 0 ELSE count[1]

\* FighterRecord.to_record_string: the canonical 'W-L-D (N NC)' string
ToRecordString(record, style) ==
    Str(record.wins) \o <<"-">> \o Str(record.losses)
    \o (IF Shows(style.draws, record.draws)
        THEN <<"-">> \o Str(CountOf(record.draws)) ELSE <<>>)
    \o (IF Shows(style.no_contests, record.no_contests)
        THEN <<" ", "(">> \o Str(CountOf(record.no_contests)) \o <<" ", "N", "C", ")">>
        ELSE <<>>)

\* re.search(r'(\d+)[-\u2013](\d+)[-\u2013](\d+)', record_text): the three groups of
\* the leftmost match
SearchWLD(record_text) ==
    LET EndW(i) == DigitRunEnd(record_text, i)
        EndL(i) == DigitRunEnd(record_text, EndW(i) + 2)
        EndD(i) == DigitRunEnd(record_text, EndL(i) + 2)
        matches(i) ==
            /\ EndW(i) >= i
            /\ EndW(i) + 1 <= Len(record_text) /\ IsDash(record_text[EndW(i) + 1])
            /\ EndL(i) >= EndW(i) + 2
            /\ EndL(i) + 1 <= Len(record_text) /\ IsDash(record_text[EndL(i) + 1])
            /\ EndD(i) >= EndL(i) + 2
        starts == {i \in 1..Len(record_text) : matches(i)}
    IN  IF starts = {} THEN Absent
        ELSE LET i == SetMin(starts)
             IN  Some(<<SubSeq(record_text, i, EndW(i)),
                        SubSeq(record_text, EndW(i) + 2, EndL(i)),
                        SubSeq(record_text, EndL(i) + 2, EndD(i))>>)

\* re.search(r'(\d+)[-\u2013](\d+)', record_text)
SearchWL(record_text) ==
    LET EndW(i) == DigitRunEnd(record_text, i)
        EndL(i) == DigitRunEnd(record_text, EndW(i) + 2)
        matches(i) ==
            /\ EndW(i) >= i
            /\ EndW(i) + 1 <= Len(record_text) /\ IsDash(record_text[EndW(i) + 1])
            /\ EndL(i) >= EndW(i) + 2
        starts == {i \in 1..Len(record_text) : matches(i)}
    IN  IF starts = {} THEN Absent
        ELSE LET i == SetMin(starts)
             IN  Some(<<SubSeq(record_text, i, EndW(i)),
                        SubSeq(record_text, EndW(i) + 2, EndL(i))>>)

\* re.search(r'\((\d+)\s*NC\)', record_text, re.IGNORECASE)
SearchNC(record_text) ==
    LET EndN(i) == DigitRunEnd(record_text, i + 1)
        \* the end of the white space after the digits
        EndS(i) == SetMax({EndN(i)} \cup
                       {j \in (EndN(i) + 1)..Len(record_text) :
                          \A k \in (EndN(i) + 1)..j : IsSpace(record_text[k])})
        matches(i) ==
            /\ record_text[i] = "("
            /\ EndN(i) >= i + 1
            /\ EndS(i) + 3 <= Len(record_text)
            /\ record_text[EndS(i) + 1] \in {"N", "n"}
            /\ record_text[EndS(i) + 2] \in {"C", "c"}
            /\ record_text[EndS(i) + 3] = ")"
        starts == {i \in 1..Len(record_text) : matches(i)}
    IN  IF starts = {} THEN Absent
        ELSE LET i == SetMin(starts)
             IN  Some(SubSeq(record_text, i + 1, EndN(i)))

\* UFCFighterDatabaseScraper._parse_record_string
ParseRecordString(text) ==
    IF text = <<>> THEN Absent
    ELSE LET \* draws=draws if draws > 0 else None
             ParsedDraws(draws) == IF draws > 0 THEN Some(draws) ELSE Absent
             wld == SearchWLD(text)
             wl  == SearchWL(text)
             nc_match == SearchNC(text)
             no_contests == IF nc_match # Absent THEN Some(ToInt(nc_match[1])) ELSE Absent
         IN  IF wld # Absent
             THEN Some(FighterRecord(ToInt(wld[1][1]), ToInt(wld[1][2]),
                                     ParsedDraws(ToInt(wld[1][3])), no_contests))
             ELSE IF wl # Absent
             THEN Some(FighterRecord(ToInt(wl[1][1]), ToInt(wl[1][2]),
                                     ParsedDraws(0), no_contests))
             ELSE Absent

--------------------------------------------------------------------------
(* SpecRecord: a record is written as its record string, the string parsed *)

OptionalCounts(n) == {Absent} \cup {Some(k) : k \in 0..n}

AnyRecords ==
    {FighterRecord(w, l, d, n) :
        w \in 0..MaxWins, l \in 0..MaxLosses,
        d \in OptionalCounts(MaxDraws), n \in OptionalCounts(MaxNoContests)}

\* nothing of the earlier specifications is under way
CoreIdle == DiscoverIdle /\ DedupIdle /\ FightsIdle /\ ResolveIdle

InitRecord ==
    /\ rpc = "start"
    /\ render_style \in [draws : ShowStyles, no_contests : ShowStyles]
    /\ fighter_record \in AnyRecords
    /\ record_string = <<>>
    /\ parsed_record = <<>>

\* record.to_record_string()
RenderRecord ==
    /\ rpc = "start"
    /\ record_string' = ToRecordString(fighter_record, render_style)
    /\ rpc' = "rendered"
    /\ UNCHANGED <<render_style, fighter_record, parsed_record>>
    /\ UNCHANGED exceptRecord

\* _parse_record_string(record_string)
ParseRecord ==
    /\ rpc = "rendered"
    /\ parsed_record' = ParseRecordString(record_string)
    /\ rpc' = "parsed"
    /\ UNCHANGED <<render_style, fighter_record, record_string>>
    /\ UNCHANGED exceptRecord

NextRecord ==
    \/ RenderRecord
    \/ ParseRecord

InitSpecRecord == InitRecord /\ CoreIdle /\ IdleExceptRecord

SpecRecord == InitSpecRecord /\ [][NextRecord]_vars

--------------------------------------------------------------------------
(* DatabaseManager: the events and fights tables, save_event *)

\* most fights of one saved event
MaxFights == 2

EventIds == {"e1", "e2"}

\* UFCEvent(event_id, event_name, fights)
UFCEvent(event_id, event_name, event_fights) ==
    [event_id |-> event_id, event_name |-> event_name, fights |-> event_fights]

\* the events row save_event writes for an event
EventRow(event) == [event_id |-> event.event_id, event_name |-> event.event_name]

\* the fights row save_event writes for a fight (the table has no segment
\* column)
FightRow(event_id, fight) ==
    [event_id |-> event_id, bout_order |-> fight.bout_order,
     fighter1_name |-> fight.fighter1, fighter2_name |-> fight.fighter2,
     weight_class |-> fight.weight_class, title_fight |-> fight.title_fight,
     method |-> fight.method, winner |-> fight.winner]

\* INSERT OR REPLACE INTO events: event_id is the primary key
InsertOrReplaceEvent(events_table, event) ==
    [events_table EXCEPT ![event.event_id] = Some(EventRow(event))]

\* a bug: the event's old fight rows are kept
DeleteFightsNone(fights_table, event_id) == fights_table

\* DELETE FROM fights WHERE event_id = ?
DeleteFights(fights_table, event_id) ==
    SelectSeq(fights_table, LAMBDA r : r.event_id # event_id)

\* for fight in event.fights: INSERT INTO fights; UNIQUE(event_id,
\* bout_order) makes an insert raise sqlite3.IntegrityError
RECURSIVE InsertFights(_, _, _)
InsertFights(fights_table, event, i) ==
    IF i > Len(event.fights) THEN [raised |-> FALSE, fights_table |-> fights_table]
    ELSE LET r == FightRow(event.event_id, event.fights[i])
         IN  IF \E k \in 1..Len(fights_table) :
                    /\ fights_table[k].event_id = r.event_id
                    /\ fights_table[k].bout_order = r.bout_order
             THEN [raised |-> TRUE, fights_table |-> fights_table]
             ELSE InsertFights(Append(fights_table, r), event, i + 1)

--------------------------------------------------------------------------
(* SpecStore: save_event called with any events, one call after another;
   last_saved[id] is the last event save_event committed with that id, and
   save_result the last call: its event's id, what it returned and whether
   its event was the one last_saved already held for that id *)

\* the fights of the events saved: two main events, one fight for every
\* other bout_order
StoreFights ==
    {Fight(1, Al, Bo, Fly, "none", Some(KO), Some(Al), "main-card", 0),
     Fight(1, Bo, Al, Fly, "none", Absent, Absent, "main-card", 0)}
    \cup {Fight(k, Al, Bo, Fly, "none", Absent, Absent, "prelims", 0) : k \in 2..MaxFights}

\* the events save_event is called with, and an event of another name
\* without fights; event.fights can hold a bout_order twice when fights were
\* set after the event was validated
StoreEvents ==
    {UFCEvent(id, <<"U","F","C">>, f) :
        id \in EventIds, f \in SeqsUpTo(StoreFights, MaxFights)}
    \cup {UFCEvent(id, <<"F","N">>, <<>>) : id \in EventIds}

\* after create_tables: both tables are empty
InitStore ==
    /\ db_events = [id \in EventIds |-> Absent]
    /\ db_fights = <<>>
    /\ last_saved = [id \in EventIds |-> Absent]
    /\ save_result = <<>>

\* DatabaseManager.save_event(event) committing
SaveEventCommit ==
    \E event \in StoreEvents :
        LET inserted == InsertFights(DeleteFights(db_fights, event.event_id), event, 1)
        IN  /\ ~inserted.raised
            /\ db_events' = InsertOrReplaceEvent(db_events, event)
            /\ db_fights' = inserted.fights_table
            /\ last_saved' = [last_saved EXCEPT ![event.event_id] = Some(event)]
            /\ save_result' = [event_id |-> event.event_id, success |-> TRUE,
                                repeated |-> last_saved[event.event_id] = Some(event)]
            /\ UNCHANGED exceptStore

\* DatabaseManager.save_event(event) raising: rollback, return False
SaveEventRollback ==
    \E event \in StoreEvents :
        LET inserted == InsertFights(DeleteFights(db_fights, event.event_id), event, 1)
        IN  /\ inserted.raised
            /\ save_result' = [event_id |-> event.event_id, success |-> FALSE,
                                repeated |-> last_saved[event.event_id] = Some(event)]
            /\ UNCHANGED <<db_events, db_fights, last_saved>>
            /\ UNCHANGED exceptStore

NextStore ==
    \/ SaveEventCommit
    \/ SaveEventRollback

InitSpecStore == InitStore /\ CoreIdle /\ IdleExceptStore

SpecStore == InitSpecStore /\ [][NextStore]_vars

--------------------------------------------------------------------------
(* The adapters' discover_events and scrape_event, fetch failures included *)

\* most rows of one adapter's events page
MaxPageRows == 2

\* the dates on the events pages: the day before today, today, the day after
PageDates == (Today - 1)..(Today + 1)

\* the link text on the events pages
PageNames == {<<"U","F","C">>}

\* what a call gives its caller: an exception, or a value
Outcome(raised, value) == [raised |-> raised, value |-> value]

\* a bug: the exception goes on to the caller
ExceptReraises(out) == out

\* try: ... except Exception as e: logger.error(...), with the list still
\* empty (discover_events) or return None (scrape_event)
ExceptReturnsNothing(out) == IF out.raised THEN Outcome(FALSE, <<>>) ELSE out

\* _fetch_page under @retry(stop_after_attempt(3)): the page, or the
\* exception once the attempts are used up
FetchPage(fetch_ok, page) == Outcome(~fetch_ok, page)

\* WikipediaUFCScraper._should_include_event; event_date and now compare as
\* days, the event's day starting at midnight
ShouldIncludeEvent(event_info, m, since) ==
    IF m = "future" /\ event_info.date <= Today THEN FALSE
    ELSE IF m = "historical" /\ event_info.date > Today THEN FALSE
    ELSE IF since # Absent /\ event_info.date < since[1] THEN FALSE
    ELSE TRUE

\* a bug: discover_events without its try/except, the fetch's exception
\* going on to _discover_events
WikipediaDiscoverEventsReraises(fetch_ok, page, m, since) ==
    LET soup == FetchPage(fetch_ok, page)
    IN  IF soup.raised THEN soup
        ELSE Outcome(FALSE,
               SelectSeq([i \in 1..Len(soup.value) |->
                             Event(soup.value[i].name, soup.value[i].date, "wikipedia")],
                         LAMBDA e : ShouldIncludeEvent(e, m, since)))

\* WikipediaUFCScraper.discover_events: _parse_events_list keeps the rows
\* _should_include_event lets through
WikipediaDiscoverEvents(fetch_ok, page, m, since) ==
    LET soup == FetchPage(fetch_ok, page)
    IN  ExceptReturnsNothing(
            IF soup.raised THEN soup
            ELSE Outcome(FALSE,
                   SelectSeq([i \in 1..Len(soup.value) |->
                                 Event(soup.value[i].name, soup.value[i].date, "wikipedia")],
                             LAMBDA e : ShouldIncludeEvent(e, m, since))))

\* UFCStatsScaper._discover_completed_events: rows dated before since dropped
DiscoverCompletedEvents(fetch_ok, page, since) ==
    LET soup == FetchPage(fetch_ok, page)
    IN  ExceptReturnsNothing(
            IF soup.raised THEN soup
            ELSE Outcome(FALSE,
                   SelectSeq([i \in 1..Len(soup.value) |->
                                 Event(soup.value[i].name, soup.value[i].date, "ufcstats")],
                             LAMBDA e : ~(since # Absent /\ e.date < since[1]))))

\* UFCStatsScaper.discover_events: completed events in modes full and
\* historical, nothing (and no fetch) in mode future
UFCStatsDiscoverEvents(fetch_ok, page, m, since) ==
    IF m \in {"full", "historical"}
    THEN DiscoverCompletedEvents(fetch_ok, page, since)
    ELSE Outcome(FALSE, <<>>)

\* UFCOfficialScraper.discover_events: _parse_events_page dates every
\* element datetime.now() and reads neither mode nor since
UFCOfficialDiscoverEvents(fetch_ok, page, m, since) ==
    LET soup == FetchPage(fetch_ok, page)
    IN  ExceptReturnsNothing(
            IF soup.raised THEN soup
            ELSE Outcome(FALSE,
                   [i \in 1..Len(soup.value) |->
                       Event(soup.value[i].name, Today, "ufc_official")]))

\* scrape_event of any adapter: _fetch_page, then _parse_event_details,
\* which gives an event or None or raises
AdapterScrapeEvent(fetch_ok, parsed) ==
    LET soup == FetchPage(fetch_ok, <<>>)
    IN  ExceptReturnsNothing(IF soup.raised THEN soup ELSE parsed)

--------------------------------------------------------------------------
(* SpecScrape: cli.run_scraper: scrape_events(mode, since, event_id), then
   save_events and the message; one action per awaited adapter call.  calls
   lists the adapter calls made: the adapter, the method, whether its fetch
   succeeded and what it gave the orchestrator *)

\* the rows of an events page: link text and date
EventPages ==
    SeqsUpTo({[name |-> n, date |-> d] : n \in PageNames, d \in PageDates}, MaxPageRows)

\* the --event-id option: not given, empty, or an id
EventIdArgs == {Absent, Some(<<>>), Some(<<"e","1">>)}

\* the fights of a scraped event, by bout_order: UFCEvent.fights, empty by
\* default
EventFights == {<<>>, <<1>>}

\* what _parse_event_details can do with a fetched page: raise, give None,
\* or give a UFCEvent, with or without fights
ParsedDetails(source) ==
    {Outcome(TRUE, <<>>), Outcome(FALSE, Absent)}
    \cup {Outcome(FALSE, Some([source |-> source, fights |-> fights])) : fights \in EventFights}

Call(adapter, method, fetch_ok, out) ==
    [adapter |-> adapter, method |-> method, arg |-> <<>>, fetch_ok |-> fetch_ok, out |-> out]

\* if event_id:
SingleEventMode(event_id) == event_id # Absent /\ event_id[1] # <<>>

\* a bug: a found event does not end the search
FoundEventNever(event) == FALSE

\* a bug: an event without fights taken as not found
FoundEventWithFights(event) == event # Absent /\ event[1].fights # <<>>

\* if event: a UFCEvent has neither __bool__ nor __len__, so every event
\* object tests true, whatever its fights
FoundEvent(event) == event # Absent

InitScrape ==
    /\ spc = "start"
    /\ s_mode \in Modes
    /\ s_since \in {Absent} \cup {Some(d) : d \in PageDates}
    /\ s_event_id \in EventIdArgs
    /\ calls = <<>> /\ s_discovered = <<>> /\ discovered_events = <<>>
    /\ details_i = 0 /\ scraped_events = <<>> /\ run_output = <<>>

\* run_scraper's except Exception: click.echo(f"Error: {e}", err=True)
Abort ==
    /\ spc' = "done"
    /\ run_output' = [kind |-> "error", count |-> 0]

\* scrape_events: if event_id: ... else: ...
StartRun ==
    /\ spc = "start"
    /\ spc' = IF SingleEventMode(s_event_id) THEN "single_wikipedia" ELSE "discover_wikipedia"
    /\ UNCHANGED <<s_mode, s_since, s_event_id, calls, s_discovered, discovered_events,
                   details_i, scraped_events, run_output>>
    /\ UNCHANGED exceptScrape

\* _discover_events: await self.wikipedia.discover_events(mode, since)
DiscoverWikipedia ==
    /\ spc = "discover_wikipedia"
    /\ \E fetch_ok \in BOOLEAN, page \in EventPages :
         LET out == WikipediaDiscoverEvents(fetch_ok, page, s_mode, s_since)
         IN  /\ calls' = Append(calls, Call("wikipedia", "discover_events", fetch_ok, out))
             /\ IF out.raised
                THEN Abort /\ UNCHANGED <<s_discovered, discovered_events, details_i>>
                ELSE /\ s_discovered' = out.value
                     /\ UNCHANGED run_output
                     /\ IF UseFallback(out.value)
                        THEN spc' = "discover_ufcstats"
                             /\ UNCHANGED <<discovered_events, details_i>>
                        ELSE spc' = "details" /\ details_i' = 1
                             /\ discovered_events' = DeduplicateEvents(out.value)
    /\ UNCHANGED <<s_mode, s_since, s_event_id, scraped_events>>
    /\ UNCHANGED exceptScrape

\* _discover_events: await self.ufc_stats.discover_events(mode, since)
DiscoverUFCStats ==
    /\ spc = "discover_ufcstats"
    /\ \E fetch_ok \in BOOLEAN, page \in EventPages :
         LET out == UFCStatsDiscoverEvents(fetch_ok, page, s_mode, s_since)
         IN  /\ calls' = Append(calls, Call("ufcstats", "discover_events", fetch_ok, out))
             /\ IF out.raised
                THEN Abort /\ UNCHANGED s_discovered
                ELSE /\ s_discovered' = s_discovered \o out.value
                     /\ spc' = "discover_ufc_official"
                     /\ UNCHANGED run_output
    /\ UNCHANGED <<s_mode, s_since, s_event_id, discovered_events, details_i, scraped_events>>
    /\ UNCHANGED exceptScrape

\* _discover_events: await self.ufc_official.discover_events(mode, since),
\* then _deduplicate_events
DiscoverUFCOfficial ==
    /\ spc = "discover_ufc_official"
    /\ \E fetch_ok \in BOOLEAN, page \in EventPages :
         LET out == UFCOfficialDiscoverEvents(fetch_ok, page, s_mode, s_since)
         IN  /\ calls' = Append(calls, Call("ufc_official", "discover_events", fetch_ok, out))
             /\ IF out.raised
                THEN Abort /\ UNCHANGED <<s_discovered, discovered_events, details_i>>
                ELSE /\ s_discovered' = s_discovered \o out.value
                     /\ discovered_events' = DeduplicateEvents(s_discovered')
                     /\ spc' = "details" /\ details_i' = 1
                     /\ UNCHANGED run_output
    /\ UNCHANGED <<s_mode, s_since, s_event_id, scraped_events>>
    /\ UNCHANGED exceptScrape

\* _scrape_event_details with every source sent to the Wikipedia adapter
DetailsAdapterAlwaysWikipedia(event_info) == Some("wikipedia")

\* _scrape_event_details: the adapter named by event_info.get('source'), none
\* for another tag
DetailsAdapter(event_info) ==
    IF event_info.source = "wikipedia" THEN Some("wikipedia")
    ELSE IF event_info.source = "ufcstats" THEN Some("ufcstats")
    ELSE IF event_info.source = "ufc_official" THEN Some("ufc_official")
    ELSE Absent

\* what the adapter's _parse_event_details can do with the candidate's page:
\* raise, give None, or give an event (the loop tests the event and never
\* reads its fights: one fight)
ParsedDetailsOf(adapter, event_info) ==
    {Outcome(TRUE, <<>>), Outcome(FALSE, Absent),
     Outcome(FALSE, Some([source |-> adapter, event_info |-> event_info, fights |-> <<1>>]))}

\* for event_info in discovered_events: try: event = await
\* self._scrape_event_details(event_info); if event: events.append(event)
\* except Exception: continue
ScrapeEventDetails ==
    /\ spc = "details"
    /\ details_i <= Len(discovered_events)
    /\ LET event_info == discovered_events[details_i]
           adapter == DetailsAdapter(event_info)
       IN  IF adapter = Absent
           THEN UNCHANGED <<calls, scraped_events>>
           ELSE \E fetch_ok \in BOOLEAN, parsed \in ParsedDetailsOf(adapter[1], event_info) :
                  LET out == AdapterScrapeEvent(fetch_ok, parsed)
                  IN  /\ calls' = Append(calls, [Call(adapter[1], "scrape_event", fetch_ok, out)
                                                   EXCEPT !.arg = event_info])
                      /\ scraped_events' = IF ~out.raised /\ FoundEvent(out.value)
                                   THEN Append(scraped_events, out.value[1]) ELSE scraped_events
    /\ details_i' = details_i + 1
    /\ UNCHANGED <<spc, s_mode, s_since, s_event_id, s_discovered, discovered_events, run_output>>
    /\ UNCHANGED exceptScrape

\* _scrape_single_event: one adapter's scrape_event(event_id); a found event
\* is returned, else on to the next adapter; the last adapter's result is
\* returned as it is
SingleScrape(at, adapter, next) ==
    /\ spc = at
    /\ \E fetch_ok \in BOOLEAN, parsed \in ParsedDetails(adapter) :
         LET out == AdapterScrapeEvent(fetch_ok, parsed)
         IN  /\ calls' = Append(calls, Call(adapter, "scrape_event", fetch_ok, out))
             /\ IF out.raised
                THEN Abort /\ UNCHANGED scraped_events
                ELSE /\ UNCHANGED run_output
                     /\ IF FoundEvent(out.value)
                        THEN spc' = "report" /\ scraped_events' = <<out.value[1]>>
                        ELSE spc' = next /\ UNCHANGED scraped_events
    /\ UNCHANGED <<s_mode, s_since, s_event_id, s_discovered, discovered_events, details_i>>
    /\ UNCHANGED exceptScrape

SingleWikipedia == SingleScrape("single_wikipedia", "wikipedia", "single_ufcstats")

SingleUFCStats == SingleScrape("single_ufcstats", "ufcstats", "single_ufc_official")

SingleUFCOfficial == SingleScrape("single_ufc_official", "ufc_official", "report")

\* the loop over discovered_events is over: return events
ReturnEvents ==
    /\ spc = "details"
    /\ details_i > Len(discovered_events)
    /\ spc' = "report"
    /\ UNCHANGED <<s_mode, s_since, s_event_id, calls, s_discovered, discovered_events,
                   details_i, scraped_events, run_output>>
    /\ UNCHANGED exceptScrape

\* scraper.save_events(events);
\* click.echo(f"Successfully scraped {len(events)} events")
Report ==
    /\ spc = "report"
    /\ run_output' = [kind |-> "success", count |-> Len(scraped_events)]
    /\ spc' = "done"
    /\ UNCHANGED <<s_mode, s_since, s_event_id, calls, s_discovered, discovered_events,
                   details_i, scraped_events>>
    /\ UNCHANGED exceptScrape

NextScrape ==
    \/ StartRun
    \/ DiscoverWikipedia
    \/ DiscoverUFCStats
    \/ DiscoverUFCOfficial
    \/ ScrapeEventDetails
    \/ ReturnEvents
    \/ SingleWikipedia
    \/ SingleUFCStats
    \/ SingleUFCOfficial
    \/ Report

InitSpecScrape == InitScrape /\ CoreIdle /\ IdleExceptScrape

SpecScrape == InitSpecScrape /\ [][NextScrape]_vars

--------------------------------------------------------------------------
(* SpecLoop: the loop of scrape_events over a list of candidates, whatever
   their source tags *)

\* longest list of candidates handed to the loop
MaxCandidates == 2

\* the source tags of the three adapters, and a tag of none of them
CandidateTags == {"wikipedia", "ufcstats", "ufc_official", "espn"}

Candidates == {Event(n, d, t) : n \in PageNames, d \in 1..MaxDate, t \in CandidateTags}

InitLoop ==
    /\ spc = "details"
    /\ s_mode \in Modes
    /\ s_since = Absent
    /\ s_event_id = Absent
    /\ calls = <<>>
    /\ discovered_events \in SeqsUpTo(Candidates, MaxCandidates)
    /\ s_discovered = discovered_events
    /\ details_i = 1
    /\ scraped_events = <<>>
    /\ run_output = <<>>

NextLoop ==
    \/ ScrapeEventDetails
    \/ ReturnEvents
    \/ Report

InitSpecLoop == InitLoop /\ CoreIdle /\ IdleExceptScrape

SpecLoop == InitSpecLoop /\ [][NextLoop]_vars

--------------------------------------------------------------------------
(* SpecParseText: _parse_fight_text applied to result texts *)

\* most words of a fighter's name or of a method
MaxWords == 2

\* ' '.join(words)
RECURSIVE JoinWords(_)
JoinWords(words) ==
    IF Len(words) = 1 THEN words[1]
    ELSE words[1] \o <<" ">> \o JoinWords(Tail(words))

\* fighters' names and methods: one to MaxWords words
TextNames ==
    {JoinWords(w) : w \in SeqsUpTo({Al, Bo}, MaxWords) \ {<<>>}}

TextMethods ==
    {JoinWords(w) : w \in SeqsUpTo({KO, <<"b","y">>}, MaxWords) \ {<<>>}}

\* the texts tried: '<A> def. <B> via <M>', '<A> vs <B>' with and without
\* the dot, and texts of neither pattern
TextParts ==
    {[kind |-> "def", a |-> a, b |-> b, m |-> m] :
        a \in TextNames, b \in TextNames, m \in TextMethods}
    \cup {[kind |-> k, a |-> a, b |-> b, m |-> <<>>] :
            k \in {"vs", "vs."}, a \in TextNames, b \in TextNames}
    \cup {[kind |-> "neither", a |-> t, b |-> <<>>, m |-> <<>>] :
            t \in TextNames \cup {Notes, Al \o <<" ">> \o def_ \o <<" ">> \o Bo,
                                  Al \o <<" ", "v", "s">>, <<>>}}

TextOf(parts) ==
    CASE parts.kind = "def" ->
            parts.a \o <<" ">> \o def_ \o <<" ">> \o parts.b
            \o <<" ", "v", "i", "a", " ">> \o parts.m
      [] parts.kind = "vs"  -> parts.a \o <<" ", "v", "s", " ">> \o parts.b
      [] parts.kind = "vs." -> parts.a \o <<" ">> \o vs_ \o <<" ">> \o parts.b
      [] parts.kind = "neither" -> parts.a

InitParseText ==
    /\ tpc = "start"
    /\ text_parts \in TextParts
    /\ fight_text = TextOf(text_parts)
    /\ parsed_text = <<>>

\* self._parse_fight_text(text)
ParseText ==
    /\ tpc = "start"
    /\ parsed_text' = ParseFightText(fight_text, 0)
    /\ tpc' = "parsed"
    /\ UNCHANGED <<text_parts, fight_text>>
    /\ UNCHANGED exceptParseText

NextParseText == ParseText

InitSpecParseText == InitParseText /\ CoreIdle /\ IdleExceptParseText

SpecParseText == InitSpecParseText /\ [][NextParseText]_vars

--------------------------------------------------------------------------
(* SpecDetails: WikipediaUFCScraper._parse_event_details on one event page *)

\* an extracted date: its text and whether strptime('%Y-%m-%d') accepts it
DateText(text, valid) == [text |-> text, valid |-> valid]

UFC_1 == <<"U","F","C","_","1">>
Evans_vs_Davis == <<"U","F","C","_","o","n","_","F","o","x",":","_","E","v","a","n","s","_","v","s",".","_","D","a","v","i","s">>

\* HARDCODED_DATES (one of its four keys)
HardcodedDates == [k \in {Evans_vs_Davis} |-> DateText("2012-01-28", TRUE)]

Unknown_Event == <<"U","n","k","n","o","w","n"," ","E","v","e","n","t">>

\* _extract_event_name: the stripped text of h1#firstHeading, a Tag being
\* truthy whatever its text
ExtractEventName(page) ==
    IF page.heading # Absent THEN Strip(page.heading[1]) ELSE Unknown_Event

\* _extract_event_date for an event that is not hardcoded: the date of the
\* infobox row when _parse_date_from_text gives one; otherwise the function
\* goes on to `if title:`, a name it never bound, and raises NameError
ExtractEventDate(page) ==
    IF page.infobox_date # Absent
    THEN Outcome(FALSE, page.infobox_date[1])
    ELSE Outcome(TRUE, DateText("", FALSE))

\* UFCEvent(...): event_id and event_name of min_length 1, event_date
\* accepted by strptime, bout_order values all different
UFCEventIsValid(event_id, event_name, event_date, fights) ==
    /\ Len(event_id) >= 1
    /\ Len(event_name) >= 1
    /\ event_date.valid
    /\ \A i, j \in 1..Len(fights) : i # j => fights[i].bout_order # fights[j].bout_order

\* what _parse_date_from_text makes of the infobox's date cell: nothing, a
\* date, or the groups of r'(\d{4})-(\d{1,2})-(\d{1,2})' as they stand
InfoboxDates ==
    {Absent, Some(DateText("2025-06-28", TRUE)), Some(DateText("2025-13-45", FALSE))}

\* h1#firstHeading: missing, empty, or a name
Headings == {Absent, Some(<<>>), Some(<<"U","F","C"," ","1">>)}

\* the fight card and results section of the page: at most one table row and
\* one sibling of the Results heading
DetailBodies == {b \in WikiPages : Len(b.rows) <= 1 /\ Len(b.siblings) <= 1}

DetailPages ==
    {[heading |-> h, infobox_date |-> d, body |-> b] :
        h \in Headings, d \in InfoboxDates, b \in DetailBodies}

InitDetails ==
    /\ dpc = "start"
    /\ d_event_id \in {UFC_1, Evans_vs_Davis}
    /\ d_page \in DetailPages
    /\ d_name = <<>> /\ d_date = <<>> /\ d_attempts = <<>> /\ d_fights = <<>>
    /\ d_event = <<>>

\* _parse_event_details: event_name and event_date, from HARDCODED_DATES or
\* from the page; an exception ends the call with None
ExtractBasics ==
    /\ dpc = "start"
    /\ IF d_event_id \in DOMAIN HardcodedDates
       THEN /\ d_name' = ReplaceChar(d_event_id, "_", <<" ">>)
            /\ d_date' = Some(HardcodedDates[d_event_id])
            /\ dpc' = "card"
            /\ UNCHANGED d_event
       ELSE /\ d_name' = ExtractEventName(d_page)
            /\ IF ExtractEventDate(d_page).raised
               THEN d_date' = Absent /\ d_event' = Absent /\ dpc' = "returned"
               ELSE /\ d_date' = Some(ExtractEventDate(d_page).value)
                    /\ dpc' = "card"
                    /\ UNCHANGED d_event
    /\ UNCHANGED <<d_event_id, d_page, d_attempts, d_fights>>
    /\ UNCHANGED exceptDetails

\* fights = await self._extract_fight_card_with_records(soup)
ExtractCard ==
    /\ dpc = "card"
    /\ d_fights' = ExtractFightCardWithRecords(d_page.body)
    /\ d_attempts' = Append(d_attempts, "card")
    /\ dpc' = IF d_fights' = <<>> THEN "results" ELSE "construct"
    /\ UNCHANGED <<d_event_id, d_page, d_name, d_date, d_event>>
    /\ UNCHANGED exceptDetails

\* if not fights: fights = await self._extract_fights_from_results_section_with_records(soup)
ExtractResults ==
    /\ dpc = "results"
    /\ d_fights' = ExtractFightsFromResultsSection(d_page.body)
    /\ d_attempts' = Append(d_attempts, "results")
    /\ dpc' = "construct"
    /\ UNCHANGED <<d_event_id, d_page, d_name, d_date, d_event>>
    /\ UNCHANGED exceptDetails

\* event = UFCEvent(...); return event -- or, on a validation error, the
\* except branch's `return None`
ConstructEvent ==
    /\ dpc = "construct"
    /\ d_event' = IF UFCEventIsValid(d_event_id, d_name, d_date[1], d_fights)
                  THEN Some([event_id |-> d_event_id, event_name |-> d_name,
                             event_date |-> d_date[1], fights |-> d_fights])
                  ELSE Absent
    /\ dpc' = "returned"
    /\ UNCHANGED <<d_event_id, d_page, d_name, d_date, d_attempts, d_fights>>
    /\ UNCHANGED exceptDetails

NextDetails ==
    \/ ExtractBasics
    \/ ExtractCard
    \/ ExtractResults
    \/ ConstructEvent

InitSpecDetails == InitDetails /\ CoreIdle /\ IdleExceptDetails

SpecDetails == InitSpecDetails /\ [][NextDetails]_vars

--------------------------------------------------------------------------
(* SpecLoad: resolve calls on one adapter, interleaved at their awaits *)

\* resolve calls in flight on one adapter
MaxCalls == 2

Calls == 1..MaxCalls

\* what a load or a build can give: the registries of at most one item
LoadedRegistries == {d \in Registries : Len(d) <= 1}

\* data/fighter_database.json: missing, or there and json.load / Fighter(**)
\* raising or giving the items
DatabaseFiles ==
    {Absent} \cup {Some(Outcome(TRUE, <<>>))}
    \cup {Some(Outcome(FALSE, d)) : d \in LoadedRegistries}

\* __init__: self.fighter_database = None, self._database_loaded = False
InitLoad ==
    /\ lpc = [c \in Calls |-> "idle"]
    /\ scraper = [fighter_database |-> Absent, database_loaded |-> FALSE]
    /\ database_file \in DatabaseFiles
    /\ loads = 0
    /\ assigned = <<>>

\* _load_fighter_database returning at `if self._database_loaded: return`,
\* and the lookup that follows it without an await
FetchLoaded(c) ==
    /\ lpc[c] = "idle"
    /\ scraper.database_loaded
    /\ lpc' = [lpc EXCEPT ![c] = "returned"]
    /\ UNCHANGED <<scraper, database_file, loads, assigned>>
    /\ UNCHANGED exceptLoad

\* _load_fighter_database with the file there: no await between the test of
\* _database_loaded and its assignment; an exception leaves {}
FetchLoadFile(c) ==
    /\ lpc[c] = "idle"
    /\ ~scraper.database_loaded
    /\ database_file # Absent
    /\ \E d \in {IF database_file[1].raised THEN <<>> ELSE database_file[1].value} :
         /\ scraper' = [fighter_database |-> Some(d), database_loaded |-> TRUE]
         /\ assigned' = Append(assigned, d)
    /\ loads' = loads + 1
    /\ lpc' = [lpc EXCEPT ![c] = "returned"]
    /\ UNCHANGED database_file
    /\ UNCHANGED exceptLoad

\* _load_fighter_database without the file, up to
\* `await build_fighter_database()`: the call is suspended with
\* _database_loaded still False
FetchStartBuild(c) ==
    /\ lpc[c] = "idle"
    /\ ~scraper.database_loaded
    /\ database_file = Absent
    /\ loads' = loads + 1
    /\ lpc' = [lpc EXCEPT ![c] = "building"]
    /\ UNCHANGED <<scraper, database_file, assigned>>
    /\ UNCHANGED exceptLoad

\* build_fighter_database() has returned what its scrape found, or raised:
\* self.fighter_database is assigned, then _database_loaded
FetchFinishBuild(c) ==
    /\ lpc[c] = "building"
    /\ \E built \in {Outcome(TRUE, <<>>)} \cup {Outcome(FALSE, d) : d \in LoadedRegistries} :
         \E d \in {IF built.raised THEN <<>> ELSE built.value} :
            /\ scraper' = [fighter_database |-> Some(d), database_loaded |-> TRUE]
            /\ assigned' = Append(assigned, d)
    /\ lpc' = [lpc EXCEPT ![c] = "returned"]
    /\ UNCHANGED <<database_file, loads>>
    /\ UNCHANGED exceptLoad

NextLoad ==
    \E c \in Calls :
        \/ FetchLoaded(c)
        \/ FetchLoadFile(c)
        \/ FetchStartBuild(c)
        \/ FetchFinishBuild(c)

InitSpecLoad == InitLoad /\ CoreIdle /\ IdleExceptLoad

SpecLoad == InitSpecLoad /\ [][NextLoad]_vars

--------------------------------------------------------------------------
(* SpecLimiter: RateLimiter.wait, one caller at a time; time in ticks *)

\* the clock runs from 0 to MaxTime
MaxTime == 6
\* min_interval = 1.0 / requests_per_second is 1..MaxInterval ticks
MaxInterval == 2
\* wait() calls in one run
MaxWaits == 3

\* sleep_time = self.min_interval - time_since_last, one tick short
SleepTimeShort(current_time, last, interval) == interval - (current_time - last) - 1

\* time_since_last = current_time - self.last_request_time
\* sleep_time = self.min_interval - time_since_last
SleepTime(current_time, last, interval) == interval - (current_time - last)

\* RateLimiter(requests_per_second): last_request_time is None
InitLimiter ==
    /\ wpc = "ready"
    /\ now = 0
    /\ min_interval \in 1..MaxInterval
    /\ last_request_time = Absent
    /\ wake_at = 0
    /\ slept = <<>>
    /\ returns = <<>>

\* time passes: between the calls, and during asyncio.sleep
Tick ==
    /\ now < MaxTime
    /\ now' = now + 1
    /\ UNCHANGED <<wpc, min_interval, last_request_time, wake_at, slept, returns>>
    /\ UNCHANGED exceptLimiter

\* wait() when it does not sleep: no earlier request, or min_interval
\* already over; self.last_request_time = time.time() and the call returns
WaitReturn ==
    /\ wpc = "ready"
    /\ Len(returns) < MaxWaits
    /\ \/ last_request_time = Absent
       \/ /\ last_request_time # Absent
          /\ ~(now - last_request_time[1] < min_interval)
    /\ last_request_time' = Some(now)
    /\ slept' = Append(slept, FALSE)
    /\ returns' = Append(returns, now)
    /\ UNCHANGED <<wpc, now, min_interval, wake_at>>
    /\ UNCHANGED exceptLimiter

\* wait() up to `await asyncio.sleep(sleep_time)`
WaitSleep ==
    /\ wpc = "ready"
    /\ Len(returns) < MaxWaits
    /\ last_request_time # Absent
    /\ now - last_request_time[1] < min_interval
    /\ wake_at' = now + SleepTime(now, last_request_time[1], min_interval)
    /\ slept' = Append(slept, TRUE)
    /\ wpc' = "sleeping"
    /\ UNCHANGED <<now, min_interval, last_request_time, returns>>
    /\ UNCHANGED exceptLimiter

\* asyncio.sleep is over, no earlier than after sleep_time:
\* self.last_request_time = time.time() and the call returns
WaitWake ==
    /\ wpc = "sleeping"
    /\ now >= wake_at
    /\ last_request_time' = Some(now)
    /\ returns' = Append(returns, now)
    /\ wpc' = "ready"
    /\ UNCHANGED <<now, min_interval, wake_at, slept>>
    /\ UNCHANGED exceptLimiter

NextLimiter ==
    \/ Tick
    \/ WaitReturn
    \/ WaitSleep
    \/ WaitWake

InitSpecLimiter == InitLimiter /\ CoreIdle /\ IdleExceptLimiter

SpecLimiter == InitSpecLimiter /\ [][NextLimiter]_vars

--------------------------------------------------------------------------
(* SpecShared: one RateLimiter shared by coroutines that interleave at
   `await asyncio.sleep(sleep_time)` *)

\* coroutines sharing the limiter
MaxCoroutines == 2

Coroutines == 1..MaxCoroutines

\* the clock of the shared limiter runs from 0 to MaxClock
MaxClock == 4

\* wait() with the test of time_since_last left out
ShouldSleepNever(current_time, last, interval) == FALSE

\* if self.last_request_time is not None: ... if time_since_last < self.min_interval:
ShouldSleep(current_time, last, interval) ==
    last # Absent /\ current_time - last[1] < interval

\* an entry of the log: wait() was called by, or returned to, coroutine co
LogEntry(kind, co, at) == [kind |-> kind, co |-> co, at |-> at]

Entered(log) == Cardinality({i \in 1..Len(log) : log[i].kind = "call"})

InitShared ==
    /\ cpc = [co \in Coroutines |-> "ready"]
    /\ co_wake_at = [co \in Coroutines |-> 0]
    /\ clock = 0
    /\ limiter \in {[min_interval |-> i, last_request_time |-> Absent] : i \in 1..MaxInterval}
    /\ wait_log = <<>>

\* time passes, as long as a wait() is under way or can still be called
SharedTick ==
    /\ clock < MaxClock
    /\ \/ Entered(wait_log) < MaxWaits
       \/ \E co \in Coroutines : cpc[co] = "sleeping"
    /\ clock' = clock + 1
    /\ UNCHANGED <<cpc, co_wake_at, limiter, wait_log>>
    /\ UNCHANGED exceptShared

\* coroutine co calls wait() and does not sleep: last_request_time is
\* stamped and the call returns
SharedWaitReturn(co) ==
    /\ cpc[co] = "ready"
    /\ Entered(wait_log) < MaxWaits
    /\ ~ShouldSleep(clock, limiter.last_request_time, limiter.min_interval)
    /\ limiter' = [limiter EXCEPT !.last_request_time = Some(clock)]
    /\ wait_log' = wait_log \o <<LogEntry("call", co, clock), LogEntry("return", co, clock)>>
    /\ UNCHANGED <<cpc, co_wake_at, clock>>
    /\ UNCHANGED exceptShared

\* coroutine co calls wait() and is suspended in asyncio.sleep(sleep_time);
\* last_request_time is left as it was
SharedWaitSleep(co) ==
    /\ cpc[co] = "ready"
    /\ Entered(wait_log) < MaxWaits
    /\ ShouldSleep(clock, limiter.last_request_time, limiter.min_interval)
    /\ co_wake_at' = [co_wake_at EXCEPT ![co] =
                        clock + SleepTime(clock, limiter.last_request_time[1],
                                          limiter.min_interval)]
    /\ cpc' = [cpc EXCEPT ![co] = "sleeping"]
    /\ wait_log' = Append(wait_log, LogEntry("call", co, clock))
    /\ UNCHANGED <<clock, limiter>>
    /\ UNCHANGED exceptShared

\* the sleep of coroutine co is over: last_request_time is stamped and the
\* call returns
SharedWaitWake(co) ==
    /\ cpc[co] = "sleeping"
    /\ clock >= co_wake_at[co]
    /\ limiter' = [limiter EXCEPT !.last_request_time = Some(clock)]
    /\ cpc' = [cpc EXCEPT ![co] = "ready"]
    /\ wait_log' = Append(wait_log, LogEntry("return", co, clock))
    /\ UNCHANGED <<co_wake_at, clock>>
    /\ UNCHANGED exceptShared

NextShared ==
    \/ SharedTick
    \/ \E co \in Coroutines :
        \/ SharedWaitReturn(co)
        \/ SharedWaitSleep(co)
        \/ SharedWaitWake(co)

InitSpecShared == InitShared /\ CoreIdle /\ IdleExceptShared

SpecShared == InitSpecShared /\ [][NextShared]_vars

--------------------------------------------------------------------------
(* SpecCard: the rows of one table.toccolours are collected *)

\* rows of the tables whose collection order is looked at
MaxCardRows == 6

\* a segment header of either kind, a fight row, a row with too few cells
CardRows ==
    {TableRow(TRUE, <<Main_card>>), TableRow(TRUE, <<Preliminary_card>>),
     TableRow(FALSE, <<Fly, Al, def_, Bo, KO>>), TableRow(FALSE, <<Fly, Al>>)}

InitCard ==
    /\ kpc = "start"
    /\ table_rows \in SeqsUpTo(CardRows, MaxCardRows)
    /\ raw_fights = <<>>

\* segments = self._parse_fight_segments(fight_card_section), then
\* for segment_name, segment_fights in segments.items(): raw_fights_data.append(...)
CollectRows ==
    /\ kpc = "start"
    /\ raw_fights' = RawFightsData(ParseFightSegments(table_rows, 1, "main-card", <<>>), 1)
    /\ kpc' = "collected"
    /\ UNCHANGED table_rows
    /\ UNCHANGED exceptCard

NextCard == CollectRows

InitSpecCard == InitCard /\ CoreIdle /\ IdleExceptCard

SpecCard == InitSpecCard /\ [][NextCard]_vars

--------------------------------------------------------------------------
(* SpecRequests: the limiter waits and the network requests of an adapter
   operation: _fetch_page under @retry, UFCStatsScaper._search_fighter, and
   the registry build the Wikipedia adapter starts *)

\* @retry(stop=stop_after_attempt(3), ...)
StopAfterAttempt == 3

\* search_patterns has three entries
SearchPatterns == 3

\* _generate_fighter_url_variants: three variants for a name of two or more
\* parts, none otherwise
UrlVariants == {0, 3}

Operations == {"fetch_page", "search_fighter", "load_fighter_database"}

\* the limiter an operation's _fetch_page waits on: self.rate_limiter of the
\* adapter, or the RateLimiter(requests_per_second=1.0) that
\* build_fighter_database creates for its own scraper
LimiterOf(op) == IF op = "load_fighter_database" THEN "build" ELSE "adapter"

Waited(which) == [kind |-> "wait", limiter |-> which]

Requested(kind) == [kind |-> kind, limiter |-> None]

InitRequests ==
    /\ npc = "start"
    /\ operation = None
    /\ attempt = 0
    /\ patterns_left = 0
    /\ variants_left = 0
    /\ request_log = <<>>

\* the adapter starts an operation: a page fetch (discover_events,
\* scrape_event), a fighter search, or the first resolve call without a
\* registry file
StartOperation ==
    /\ npc = "start"
    /\ \E op \in Operations, variants \in UrlVariants :
         /\ operation' = op
         /\ patterns_left' = IF op = "search_fighter" THEN SearchPatterns ELSE 0
         /\ variants_left' = IF op = "search_fighter" THEN variants ELSE 0
    /\ attempt' = 1
    /\ npc' = "wait"
    /\ UNCHANGED request_log
    /\ UNCHANGED exceptRequests

\* _fetch_page: await self.rate_limiter.wait()
FetchWait ==
    /\ npc = "wait"
    /\ request_log' = Append(request_log, Waited(LimiterOf(operation)))
    /\ npc' = "request"
    /\ UNCHANGED <<operation, attempt, patterns_left, variants_left>>
    /\ UNCHANGED exceptRequests

\* where the operation goes when its _fetch_page has returned or given up
AfterFetch(matched) ==
    IF operation = "search_fighter"
    THEN IF matched THEN "done"
         ELSE IF patterns_left > 1 THEN "wait"
         ELSE IF variants_left > 0 THEN "probe" ELSE "done"
    ELSE "done"

\* _fetch_page: self.session.get(url); on an exception @retry calls the
\* function again, up to StopAfterAttempt attempts
FetchRequest ==
    /\ npc = "request"
    /\ request_log' = Append(request_log, Requested("get"))
    /\ \E ok \in BOOLEAN, matched \in BOOLEAN :
         IF ~ok /\ attempt < StopAfterAttempt
         THEN /\ attempt' = attempt + 1
              /\ npc' = "wait"
              /\ UNCHANGED patterns_left
         ELSE /\ attempt' = 1
              /\ npc' = AfterFetch(ok /\ matched)
              /\ patterns_left' = IF operation = "search_fighter"
                                  THEN patterns_left - 1 ELSE patterns_left
    /\ UNCHANGED <<operation, variants_left>>
    /\ UNCHANGED exceptRequests

\* _search_fighter: response = self.session.head(test_url, timeout=10) for
\* the next URL variant
HeadProbe ==
    /\ npc = "probe"
    /\ variants_left > 0
    /\ request_log' = Append(request_log, Requested("head"))
    /\ \E found \in BOOLEAN :
         npc' = IF found \/ variants_left = 1 THEN "done" ELSE "probe"
    /\ variants_left' = variants_left - 1
    /\ UNCHANGED <<operation, attempt, patterns_left>>
    /\ UNCHANGED exceptRequests

NextRequests ==
    \/ StartOperation
    \/ FetchWait
    \/ FetchRequest
    \/ HeadProbe

InitSpecRequests == InitRequests /\ CoreIdle /\ IdleExceptRequests

SpecRequests == InitSpecRequests /\ [][NextRequests]_vars

--------------------------------------------------------------------------
(* SpecSelect: the ordered selector lists of the events pages *)

\* most matches a selector has on a page
MaxMatches == 2

\* selectors = [...] of _discover_completed_events and event_selectors = [...]
\* of _parse_events_page: four and five entries
SelectorCount(adapter) == IF adapter = "ufcstats" THEN 4 ELSE 5

\* the test a selector's result has to pass: `if rows and len(rows) > 1`
\* (UFCStats), `if elements` (UFC.com)
Accepts(adapter, n) == IF adapter = "ufcstats" THEN n >= 1 /\ n > 1 ELSE n >= 1

\* for selector in selectors: ... break -- the selectors consulted, from
\* selector i on, and the one used (0: none)
RECURSIVE SelectorLoop(_, _, _, _)
SelectorLoop(adapter, counts, i, seen) ==
    IF i > Len(counts) THEN [consulted |-> seen, used |-> 0]
    ELSE IF Accepts(adapter, counts[i])
         THEN [consulted |-> Append(seen, i), used |-> i]
         ELSE SelectorLoop(adapter, counts, i + 1, Append(seen, i))

InitSelect ==
    /\ qpc = "start"
    /\ select_adapter \in {"ufcstats", "ufc_official"}
    /\ match_counts \in [1..SelectorCount(select_adapter) -> 0..MaxMatches]
    /\ consulted = <<>>
    /\ used = 0

\* the selector loop of the adapter's events page
TrySelectors ==
    /\ qpc = "start"
    /\ consulted' = SelectorLoop(select_adapter, match_counts, 1, <<>>).consulted
    /\ used' = SelectorLoop(select_adapter, match_counts, 1, <<>>).used
    /\ qpc' = "selected"
    /\ UNCHANGED <<select_adapter, match_counts>>
    /\ UNCHANGED exceptSelect

NextSelect == TrySelectors

InitSpecSelect == InitSelect /\ CoreIdle /\ IdleExceptSelect

SpecSelect == InitSpecSelect /\ [][NextSelect]_vars

--------------------------------------------------------------------------
(* SpecSave: save_event one statement at a time on a connection in sqlite3's
   default transaction mode: the first INSERT opens a transaction, the
   statements change what the connection sees, commit() makes it the stored
   state and rollback() takes the connection back to the stored state.  Any
   statement can raise (sqlite3.OperationalError: database is locked, disk
   full); an INSERT INTO fights also raises on UNIQUE(event_id, bout_order) *)

\* most fights of the event of one call
MaxSaveFights == 2

\* the fights of the events saved: a main event and a preliminary bout
SaveFights ==
    {Fight(1, Al, Bo, Fly, "none", Some(KO), Some(Al), "main-card", 0),
     Fight(2, Bo, Al, Fly, "none", Absent, Absent, "prelims", 0)}

\* the events save_event is called with, and events of another name with
\* one fight at most; event.fights can hold a bout_order twice when fights
\* were set after the event was validated
SaveEvents ==
    {UFCEvent(id, <<"U","F","C">>, f) :
        id \in EventIds, f \in SeqsUpTo(SaveFights, MaxSaveFights)}
    \cup {UFCEvent(id, <<"F","N">>, f) : id \in EventIds, f \in SeqsUpTo(SaveFights, 1)}

Tables(events_rows, fights_rows) == [events |-> events_rows, fights |-> fights_rows]

\* UNIQUE(event_id, bout_order) on the fights table
ViolatesUnique(fights_table, r) ==
    \E k \in 1..Len(fights_table) :
        /\ fights_table[k].event_id = r.event_id
        /\ fights_table[k].bout_order = r.bout_order

\* a bug: the except branch without its rollback, the changes of the failed
\* call staying in the connection
RollbackNothing(stored, seen) == seen

\* self.connection.rollback(): the connection sees the committed tables again
Rollback(stored, seen) == stored

\* after create_tables: both tables are empty and committed
InitSave ==
    /\ vpc = "idle"
    /\ save_arg = <<>> /\ save_i = 0
    /\ conn_tables = Tables([id \in EventIds |-> Absent], <<>>)
    /\ disk_tables = conn_tables
    /\ before_call = conn_tables
    /\ failed_at = None
    /\ save_returned = <<>>

\* save_event(event) is called
SaveCall ==
    /\ vpc = "idle"
    /\ \E event \in SaveEvents : save_arg' = event
    /\ vpc' = "upsert"
    /\ before_call' = conn_tables
    /\ failed_at' = None
    /\ save_i' = 0
    /\ save_returned' = <<>>
    /\ UNCHANGED <<conn_tables, disk_tables>>
    /\ UNCHANGED exceptSave

\* a statement raised: on to the except branch
Raise(step) ==
    /\ vpc' = "except"
    /\ failed_at' = step
    /\ UNCHANGED <<save_arg, save_i, conn_tables, disk_tables, before_call, save_returned>>

\* cursor.execute("INSERT OR REPLACE INTO events ...")
SaveUpsert ==
    /\ vpc = "upsert"
    /\ \/ Raise("upsert")
       \/ /\ conn_tables' = [conn_tables EXCEPT
                                !.events = InsertOrReplaceEvent(conn_tables.events, save_arg)]
          /\ vpc' = "delete"
          /\ UNCHANGED <<save_arg, save_i, disk_tables, before_call, failed_at, save_returned>>
    /\ UNCHANGED exceptSave

\* cursor.execute("DELETE FROM fights WHERE event_id = ?")
SaveDelete ==
    /\ vpc = "delete"
    /\ \/ Raise("delete")
       \/ /\ conn_tables' = [conn_tables EXCEPT
                                !.fights = DeleteFights(conn_tables.fights, save_arg.event_id)]
          /\ vpc' = "insert"
          /\ save_i' = 1
          /\ UNCHANGED <<save_arg, disk_tables, before_call, failed_at, save_returned>>
    /\ UNCHANGED exceptSave

\* for fight in event.fights: cursor.execute("INSERT INTO fights ...")
SaveInsert ==
    /\ vpc = "insert"
    /\ save_i <= Len(save_arg.fights)
    /\ LET r == FightRow(save_arg.event_id, save_arg.fights[save_i])
       IN  \/ Raise("insert")
           \/ /\ ~ViolatesUnique(conn_tables.fights, r)
              /\ conn_tables' = [conn_tables EXCEPT !.fights = Append(conn_tables.fights, r)]
              /\ save_i' = save_i + 1
              /\ UNCHANGED <<vpc, save_arg, disk_tables, before_call, failed_at, save_returned>>
    /\ UNCHANGED exceptSave

\* self.connection.commit(); return True
SaveCommit ==
    /\ vpc = "insert"
    /\ save_i > Len(save_arg.fights)
    /\ \/ Raise("commit")
       \/ /\ disk_tables' = conn_tables
          /\ save_returned' = Some(TRUE)
          /\ vpc' = "idle"
          /\ UNCHANGED <<save_arg, save_i, conn_tables, before_call, failed_at>>
    /\ UNCHANGED exceptSave

\* except Exception: self.connection.rollback(); return False
SaveExcept ==
    /\ vpc = "except"
    /\ conn_tables' = Rollback(disk_tables, conn_tables)
    /\ save_returned' = Some(FALSE)
    /\ vpc' = "idle"
    /\ UNCHANGED <<save_arg, save_i, disk_tables, before_call, failed_at>>
    /\ UNCHANGED exceptSave

NextSave ==
    \/ SaveCall
    \/ SaveUpsert
    \/ SaveDelete
    \/ SaveInsert
    \/ SaveCommit
    \/ SaveExcept

InitSpecSave == InitSave /\ CoreIdle /\ IdleExceptSave

SpecSave == InitSpecSave /\ [][NextSave]_vars

--------------------------------------------------------------------------
(* Claims about discovery and deduplication *)

Range(f) == {f[i] : i \in DOMAIN f}

\* the key of the specification: (date, lower-cased and trimmed name)
NormalizedKey(e) == <<e.date, Lower(Strip(e.name))>>

\* the entries of events whose key no earlier entry has, in their order
FirstOccurrences(events) ==
    LET idx == {i \in 1..Len(events) :
                   \A j \in 1..(i - 1) : NormalizedKey(events[j]) # NormalizedKey(events[i])}
        nth(k) == CHOOSE i \in idx : Cardinality({j \in idx : j <= i}) = k
    IN  [k \in 1..Cardinality(idx) |-> events[nth(k)]]

\* C1: whatever list _deduplicate_events is given, no two entries of the list
\* it returns share the key (date, lower-cased and trimmed name).
C1_NoSharedKey ==
    dedupDone =>
        \A i, j \in 1..Len(dedupOutput) :
            i # j => NormalizedKey(dedupOutput[i]) # NormalizedKey(dedupOutput[j])

\* an input from which an entry was dropped whose name differs from the
\* kept one's only by case or padding
C1_Witness ==
    /\ dedupDone
    /\ Len(dedupOutput) = Len(dedupInput) - 1
    /\ \E i, j \in 1..Len(dedupInput) :
         /\ i < j
         /\ dedupInput[i].name # dedupInput[j].name
         /\ NormalizedKey(dedupInput[i]) = NormalizedKey(dedupInput[j])

SourceRank(source) ==
    CASE source = "wikipedia" -> 1
      [] source = "ufcstats" -> 2
      [] source = "ufc_official" -> 3

\* C2: the fallback sources are queried if and only if the primary source
\* returned zero candidates: a fallback discover call is only ever made after
\* an empty Wikipedia result, and discovery returns after exactly the call to
\* Wikipedia when that gave candidates, and after the calls to Wikipedia,
\* UFCStats and UFC.com, in this order, when it gave none.
C2_FallbackIffPrimaryEmpty ==
    /\ (Range(discoverCalls) \cap {"ufcstats", "ufc_official"} # {}) =>
           (discoverCalls[1] = "wikipedia" /\ wikipedia_events = <<>>)
    /\ pc = "done" =>
           IF wikipedia_events = <<>>
           THEN discoverCalls = <<"wikipedia", "ufcstats", "ufc_official">>
           ELSE discoverCalls = <<"wikipedia">>

\* discovery returned candidates that only the fallback sources supplied
C2_Witness ==
    /\ pc = "done"
    /\ wikipedia_events = <<>>
    /\ Len(discoverCalls) = 3
    /\ unique_events # <<>>

\* C3: deduplication is first-seen-wins: the list discovery returns holds, for
\* every key, the earliest entry with that key of the concatenated input
\* (primary, then UFCStats, then UFC.com), whatever its source, and keeps the
\* input's relative order.
C3_FirstSeenWins ==
    pc = "done" =>
        /\ unique_events = FirstOccurrences(discovered)
        /\ \A i, j \in 1..Len(discovered) :
               i < j => SourceRank(discovered[i].source) <= SourceRank(discovered[j].source)

\* a UFC.com candidate was dropped for a UFCStats candidate with the same key
C3_Witness ==
    /\ pc = "done"
    /\ \E i, j \in 1..Len(discovered) :
         /\ i < j
         /\ discovered[i].source = "ufcstats"
         /\ discovered[j].source = "ufc_official"
         /\ NormalizedKey(discovered[i]) = NormalizedKey(discovered[j])
         /\ discovered[i] \in Range(unique_events)
         /\ discovered[j] \notin Range(unique_events)

--------------------------------------------------------------------------
(* Claims about fight extraction *)

BoutOrders == {returned_fights[i].bout_order : i \in 1..Len(returned_fights)}

\* C4: whatever adapter extracted the fights and whatever the card, the
\* bout_order values of the returned list are exactly 1..N, N the number of
\* returned fights.
C4_BoutOrdersContiguous ==
    fpc = "done" => BoutOrders = 1..Len(returned_fights)

\* C5: in every extraction path bout_order is the reverse of document order:
\* a fight described later in the document has the smaller bout_order, the
\* last one described has 1 and the first one has N.
C5_ReverseOfDocumentOrder ==
    fpc = "done" =>
        \A i, j \in 1..Len(returned_fights) :
            /\ returned_fights[i].row < returned_fights[j].row
                   => returned_fights[i].bout_order > returned_fights[j].bout_order
            /\ (\A k \in 1..Len(returned_fights) : returned_fights[k].row <= returned_fights[i].row)
                   => returned_fights[i].bout_order = 1
            /\ (\A k \in 1..Len(returned_fights) : returned_fights[k].row >= returned_fights[i].row)
                   => returned_fights[i].bout_order = Len(returned_fights)

\* C6: every fight any adapter returns has no winner when it has no method.
C6_NoWinnerWithoutMethod ==
    \A f \in Range(returned_fights) : f.method = Absent => f.winner = Absent

\* C7: every fight any adapter returns has no winner, or a winner equal to
\* the stored (cleaned) name of its fighter1 or of its fighter2.
C7_WinnerIsAFighter ==
    \A f \in Range(returned_fights) :
        f.winner = Absent \/ f.winner[1] \in {f.fighter1, f.fighter2}

\* a fight of a Wikipedia card whose winner is the cleaned name of a cell
\* that carries a marker, and a fight without a result beside it
C7_Witness ==
    /\ fpc = "done"
    /\ path = "wikipedia_card"
    /\ \E f \in Range(returned_fights) :
         /\ f.winner = Some(f.fighter1)
         /\ doc.rows[f.row].cells[2] # f.fighter1
    /\ \E f \in Range(returned_fights) : f.winner = Absent

\* the segment a single-cell header row with this text selects
HeaderSegment(text) ==
    IF Contains(Lower(text), <<"m","a","i","n"," ","c","a","r","d">>) THEN "main-card"
    ELSE IF Contains(Lower(text), <<"p","r","e","l","i","m">>)
         THEN IF Contains(Lower(text), <<"e","a","r","l","y">>)
              THEN "early-prelims" ELSE "prelims"
    ELSE "unrecognized"

\* the segment the most recent recognized header before row r selects
SegmentBefore(rows, r) ==
    LET recognized == {k \in 1..(r - 1) : /\ Len(rows[k].cells) = 1
                                          /\ HeaderSegment(rows[k].cells[1]) # "unrecognized"}
    IN  IF recognized = {} THEN "main-card"
        ELSE HeaderSegment(rows[SetMax(recognized)].cells[1])

\* C8: in the fight-card table parse every fight comes from a multi-cell row
\* whose first cell does not contain 'weight class', and its segment is the
\* one the most recent recognized single-cell header row before it selects,
\* main-card when there is none; so other single-cell rows and column-header
\* rows give no fight and leave the segment as it is.
C8_SegmentFollowsHeaders ==
    path = "wikipedia_card" =>
        \A f \in Range(returned_fights) :
            /\ Len(doc.rows[f.row].cells) > 1
            /\ ~Contains(Lower(doc.rows[f.row].cells[1]), <<"w","e","i","g","h","t"," ","c","l","a","s","s">>)
            /\ f.segment = SegmentBefore(doc.rows, f.row)

\* a fight in early-prelims although the row before it is an unrecognized
\* single-cell row: the header two rows up still holds
C8_Witness ==
    /\ fpc = "done"
    /\ path = "wikipedia_card"
    /\ \E f \in Range(returned_fights) :
         /\ f.segment = "early-prelims"
         /\ f.row = 3
         /\ doc.rows[1].cells = <<Early_prelims>>
         /\ doc.rows[2].cells = <<Notes>>

\* '(c)', in either case, somewhere in the raw name
HasMarker(raw) ==
    \E i \in 1..(Len(raw) - 2) : raw[i] = "(" /\ raw[i + 1] \in {"c", "C"} /\ raw[i + 2] = ")"

\* 'championship' or 'title' in the weight class, whatever the case
NamesATitle(weight_class) ==
    \/ Contains(Lower(weight_class), <<"c","h","a","m","p","i","o","n","s","h","i","p">>)
    \/ Contains(Lower(weight_class), <<"t","i","t","l","e">>)

\* the raw texts a Wikipedia fight was made from: the cells of its table row
\* (weight class, fighter 1, fighter 2 in columns 0, 1 and 3), or the names
\* the text of its paragraph or list item gives
RawOf(f) ==
    IF path = "wikipedia_card"
    THEN [fighter1 |-> doc.rows[f.row].cells[2], fighter2 |-> doc.rows[f.row].cells[4],
          weight_class |-> doc.rows[f.row].cells[1]]
    ELSE LET text == doc.siblings[f.row \div 10].texts[IF f.row % 10 = 0 THEN 1 ELSE f.row % 10]
         IN  With(SearchDef(text), LAMBDA def_match :
                 IF def_match # Absent
                 THEN [fighter1 |-> def_match[1].winner, fighter2 |-> def_match[1].loser,
                       weight_class |-> Unknown]
                 ELSE [fighter1 |-> SearchVs(text)[1].fighter1,
                       fighter2 |-> SearchVs(text)[1].fighter2,
                       weight_class |-> Unknown])

\* C9: a fight extracted from Wikipedia has title_fight undisputed if the raw
\* name of fighter1 or of fighter2 carries '(c)' or the weight class names a
\* championship or title, and title_fight none otherwise.
C9_TitleFightIffMarkerOrClass ==
    path \in {"wikipedia_card", "wikipedia_results"} =>
        \A f \in Range(returned_fights) : \A raw \in {RawOf(f)} :
            f.title_fight =
                IF \/ HasMarker(raw.fighter1)
                   \/ HasMarker(raw.fighter2)
                   \/ NamesATitle(raw.weight_class)
                THEN "undisputed" ELSE "none"

\* an undisputed title fight by the '(C)' on the second name alone, the
\* marker gone from the stored name
C9_Witness ==
    /\ fpc = "done"
    /\ path = "wikipedia_card"
    /\ \E f \in Range(returned_fights) :
         /\ f.title_fight = "undisputed"
         /\ ~NamesATitle(f.weight_class)
         /\ ~HasMarker(RawOf(f).fighter1)
         /\ HasMarker(RawOf(f).fighter2)
         /\ ~HasMarker(f.fighter2)

--------------------------------------------------------------------------
(* Claims about the fighter-identity resolver *)

\* the words of a registry key, its commas dropped
KeyWords(key) == SplitWords(ReplaceChar(key, ",", <<>>), 1)

\* 'l, f' for the two-word name 'F L'
ReversedKey(name) ==
    LET words == SplitWords(Lower(name), 1)
    IN  words[2] \o <<",", " ">> \o words[1]

\* C10: when the resolved name has two words 'F L' and the registry's only
\* entry for that fighter is keyed 'l, f' and has a record, the resolver
\* returns that entry's record.
C10_ReversedKeyResolves ==
    \A k \in 1..Len(fighter_database) :
        ( /\ database_loaded
          /\ Len(SplitWords(fetch_name, 1)) = 2
          /\ fighter_database[k].name = ReversedKey(fetch_name)
          /\ fighter_database[k].record_breakdown # Absent
          /\ \A j \in 1..Len(fighter_database) :
                 j # k => ~(Range(SplitWords(Lower(fetch_name), 1))
                              \subseteq Range(KeyWords(fighter_database[j].name))) )
        => fetch_result = fighter_database[k].record_breakdown

--------------------------------------------------------------------------
(* Claims about the record string *)

\* C11: a FighterRecord written as its canonical string and parsed by
\* _parse_record_string comes back with the same wins, losses, draws and
\* no_contests, whether draws and no_contests are absent, 0 or positive
C11_RecordRoundTrips ==
    rpc = "parsed" => parsed_record = Some(fighter_record)

--------------------------------------------------------------------------
(* Claims about persistence *)

\* the fight rows stored for an event_id, in insertion order
StoredRows(event_id) == SelectSeq(db_fights, LAMBDA r : r.event_id = event_id)

--------------------------------------------------------------------------
(* Claims about the orchestrator and the adapters' discovery *)

\* the fixed order of _scrape_single_event
AdapterOrder == <<"wikipedia", "ufcstats", "ufc_official">>

\* C13: with an event_id given no discover_events call is made, the
\* adapters' scrape_event is called in the order Wikipedia, UFCStats,
\* UFC.com, each only after every earlier one returned absent, and the
\* result is the first event found (none when all three returned absent)
C13_SingleEventTriesAdaptersInOrder ==
    SingleEventMode(s_event_id) =>
        /\ Len(calls) <= 3
        /\ \A i \in 1..Len(calls) :
              /\ calls[i].method = "scrape_event"
              /\ calls[i].adapter = AdapterOrder[i]
              /\ i > 1 => calls[i - 1].out = Outcome(FALSE, Absent)
        /\ spc \in {"report", "done"} =>
              /\ calls # <<>>
              /\ scraped_events =
                    IF calls[Len(calls)].out.value = Absent THEN <<>>
                    ELSE <<calls[Len(calls)].out.value[1]>>
              /\ calls[Len(calls)].out.value = Absent => Len(calls) = 3

\* the event came from UFC.com, after Wikipedia and UFCStats returned absent
C13_Witness ==
    /\ SingleEventMode(s_event_id)
    /\ spc = "done"
    /\ Len(calls) = 3
    /\ Len(scraped_events) = 1 /\ scraped_events[1].source = "ufc_official"

\* C14: when every adapter returned absent for a single-event request, the
\* run reports a failure ('event not found'), not a success
C14_AllAbsentIsNotFound ==
    ( /\ SingleEventMode(s_event_id)
      /\ spc = "done"
      /\ Len(calls) = 3
      /\ \A i \in 1..3 : calls[i].out = Outcome(FALSE, Absent) )
    => run_output.kind # "success"

\* the scrape_event calls of the run
ScrapeCalls == SelectSeq(calls, LAMBDA c : c.method = "scrape_event")

\* C15: a fetch that failed after its retries never aborts the run: the
\* adapter's discover_events then gives an empty list and its scrape_event
\* absent, the run never ends in an error, and without an event_id the
\* orchestrator calls scrape_event for every candidate, whatever became of
\* the candidates before it
C15_FailedFetchNeverAborts ==
    /\ \A i \in 1..Len(calls) :
          ~calls[i].fetch_ok => calls[i].out = Outcome(FALSE, <<>>)
    /\ run_output # <<>> => run_output.kind = "success"
    /\ (~SingleEventMode(s_event_id) /\ spc \in {"report", "done"}) =>
          /\ Len(ScrapeCalls) = Len(discovered_events)
          /\ \A i \in 1..Len(discovered_events) :
                ScrapeCalls[i].adapter = discovered_events[i].source

\* Wikipedia's discovery failed to fetch, the fallbacks gave two candidates,
\* the first candidate's fetch failed and the second was extracted
C15_Witness ==
    /\ ~SingleEventMode(s_event_id)
    /\ spc = "done"
    /\ ~calls[1].fetch_ok
    /\ Len(discovered_events) = 2
    /\ ~ScrapeCalls[1].fetch_ok
    /\ Len(scraped_events) = 1
    /\ run_output = [kind |-> "success", count |-> 1]

\* C16: discover_events(mode, since) of Wikipedia, UFCStats and UFC.com
\* returns no event dated before since, in mode future none dated today or
\* earlier, in mode historical none dated after today
C16_DiscoverRespectsModeAndSince ==
    \A i \in 1..Len(calls) :
        calls[i].method = "discover_events" =>
            \A k \in 1..Len(calls[i].out.value) :
                LET e == calls[i].out.value[k]
                IN  /\ s_since # Absent => e.date >= s_since[1]
                    /\ s_mode = "future" => e.date > Today
                    /\ s_mode = "historical" => e.date <= Today

--------------------------------------------------------------------------
(* Claims about _parse_fight_text *)

\* C17: '<A> def. <B> via <M>' parses to fighter1 = A, fighter2 = B,
\* winner = A and method = M; '<A> vs <B>' without 'def.' to fighter1 = A,
\* fighter2 = B with no winner and no method; a text of neither pattern to
\* absent
C17_ParseFightTextPatterns ==
    tpc = "parsed" =>
        CASE text_parts.kind = "def" ->
                /\ parsed_text # Absent
                /\ parsed_text[1].fighter1 = text_parts.a
                /\ parsed_text[1].fighter2 = text_parts.b
                /\ parsed_text[1].winner = Some(text_parts.a)
                /\ parsed_text[1].method = Some(text_parts.m)
          [] text_parts.kind \in {"vs", "vs."} ->
                /\ parsed_text # Absent
                /\ parsed_text[1].fighter1 = text_parts.a
                /\ parsed_text[1].fighter2 = text_parts.b
                /\ parsed_text[1].winner = Absent
                /\ parsed_text[1].method = Absent
          [] text_parts.kind = "neither" -> parsed_text = Absent

\* a text with names and a method of more than one word was parsed
C17_Witness ==
    /\ tpc = "parsed"
    /\ text_parts.kind = "def"
    /\ parsed_text[1].fighter1 = Al \o <<" ">> \o Bo
    /\ parsed_text[1].fighter2 = Bo \o <<" ">> \o Al
    /\ parsed_text[1].method = Some(KO \o <<" ", "b", "y">>)

--------------------------------------------------------------------------
(* Claims about the Wikipedia adapter's detail extraction *)

\* the page's fight card and its results section both give no fights
BothGiveNothing(page) ==
    /\ ExtractFightCardWithRecords(page.body) = <<>>
    /\ ExtractFightsFromResultsSection(page.body) = <<>>

\* C18: the results-section parse is attempted only when the structured
\* fight card gave no fights, and when both give nothing the event is still
\* returned (not absent) with an empty fight list
C18_EmptyCardFallsBackAndEventReturned ==
    /\ "results" \in Range(d_attempts) =>
          /\ d_attempts = <<"card", "results">>
          /\ ExtractFightCardWithRecords(d_page.body) = <<>>
    /\ (dpc = "returned" /\ BothGiveNothing(d_page)) =>
          /\ d_event # Absent
          /\ d_event[1].fights = <<>>

\* the first half of C18 on its own: the fallback only after an empty card
C18_ResultsOnlyAfterEmptyCard ==
    "results" \in Range(d_attempts) =>
        /\ d_attempts = <<"card", "results">>
        /\ ExtractFightCardWithRecords(d_page.body) = <<>>

\* the second half of C18 for pages whose heading is not empty and whose
\* infobox gives a valid date
C18_EventReturnedWhenNameAndDateValid ==
    (/\ dpc = "returned"
     /\ d_attempts = <<"card", "results">>
     /\ d_fights = <<>>
     /\ Len(d_name) >= 1
     /\ d_date[1].valid) =>
        /\ d_event # Absent
        /\ d_event[1].fights = <<>>

--------------------------------------------------------------------------
(* Claims about the fighter registry's loading *)

\* C19: over any sequence or interleaving of resolve calls on one adapter
\* the registry is loaded or built at most once, and once populated its
\* contents never change -- two calls that both start before the first
\* build has completed included
C19_RegistryBuiltOnceAndFrozen ==
    /\ loads <= 1
    /\ \A i, j \in 1..Len(assigned) : assigned[i] = assigned[j]

\* C19 where data/fighter_database.json is there: the load has no await, so
\* the calls cannot overlap in it
C19_FileLoadedOnce ==
    database_file # Absent => (loads <= 1 /\ Len(assigned) <= 1)

--------------------------------------------------------------------------
(* Claims about the rate limiter *)

\* C20: for sequential callers of one RateLimiter any two consecutive
\* returns of wait() are at least min_interval apart, after any sequence of
\* wait() calls; the first wait() returns without sleeping
C20_ReturnsAtLeastMinIntervalApart ==
    /\ \A k \in 1..(Len(returns) - 1) : returns[k + 1] - returns[k] >= min_interval
    /\ Len(slept) >= 1 => ~slept[1]

\* three waits have returned, one of the later two after sleeping exactly up
\* to min_interval and the other without sleeping
C20_Witness ==
    /\ Len(returns) = MaxWaits
    /\ \E k \in 2..MaxWaits : slept[k] /\ returns[k] - returns[k - 1] = min_interval
    /\ \E k \in 2..MaxWaits : ~slept[k]

--------------------------------------------------------------------------
(* Claims about a rate limiter shared by coroutines *)

\* positions i < j of the log hold consecutive returns of wait()
ConsecutiveReturns(i, j) ==
    /\ i < j
    /\ wait_log[i].kind = "return"
    /\ wait_log[j].kind = "return"
    /\ \A k \in (i + 1)..(j - 1) : wait_log[k].kind # "return"

\* the position of the call that the return at position j belongs to
CallOf(j) ==
    SetMax({k \in 1..j : wait_log[k].kind = "call" /\ wait_log[k].co = wait_log[j].co})

\* C21: the minimum interval holds only for sequential callers: two
\* consecutive returns of wait() are less than min_interval apart only when
\* the later call was made before the earlier one returned (the two calls
\* interleaved at the sleep); the witness is two such returns
C21_TooCloseOnlyWhenInterleaved ==
    \A i, j \in 1..Len(wait_log) :
        (ConsecutiveReturns(i, j)
         /\ wait_log[j].at - wait_log[i].at < limiter.min_interval)
            => CallOf(j) < i

\* two coroutines interleaved at the sleep and both returned less than
\* min_interval apart
C21_Witness ==
    \E i, j \in 1..Len(wait_log) :
        /\ ConsecutiveReturns(i, j)
        /\ wait_log[i].co # wait_log[j].co
        /\ wait_log[j].at - wait_log[i].at < limiter.min_interval
        /\ CallOf(j) < i

--------------------------------------------------------------------------
(* Claims about the numbering and the order of the returned fights *)

\* the bout_order that reversing the list and renumbering it 1..N (the
\* derivation of _extract_fights in the other adapters) gives the fight at
\* position p
ReverseRenumbered(fights, p) == Renumber(fights)[Len(fights) + 1 - p].bout_order

\* the rows _extract_fight_card_with_records collected from the page
CollectedRows(page) ==
    IF ~page.has_table THEN <<>>
    ELSE RawFightsData(ParseFightSegments(page.rows, 1, "main-card", <<>>), 1)

\* C22: the 'total_count - index' numbering of the Wikipedia card and the
\* reverse-then-renumber of the other adapters give every returned fight the
\* same bout_order, for every sequence of collected rows, also when Fight
\* construction fails for some of them
C22_SameNumberingAsReverseRenumber ==
    path = "wikipedia_card" =>
        \A p \in 1..Len(returned_fights) :
            returned_fights[p].bout_order = ReverseRenumbered(returned_fights, p)

\* C22 for the cards where a Fight is constructed from every collected row
C22_SameNumberingWhenNoRowFails ==
    (path = "wikipedia_card" /\ Len(CollectedRows(doc)) = Len(returned_fights)) =>
        \A p \in 1..Len(returned_fights) :
            returned_fights[p].bout_order = ReverseRenumbered(returned_fights, p)

\* C23: in the Wikipedia structured card the fight rows are collected (and
\* then numbered) in their document order, for every table, also one where
\* a segment header recurs after another segment's rows
C23_CollectedInDocumentOrder ==
    kpc = "collected" =>
        \A i, j \in 1..Len(raw_fights) :
            i < j => raw_fights[i].fight_data.row < raw_fights[j].fight_data.row

\* the segment of a collected row never returns once another segment's rows
\* have followed it
NoSegmentRecurs(raw) ==
    \A i, j, k \in 1..Len(raw) :
        (i < j /\ j < k /\ raw[i].segment = raw[k].segment) => raw[j].segment = raw[i].segment

\* the table's data rows (those that reach `if current_segment not in
\* segments`, parsed or not), each with its segment
RECURSIVE RowsWithSegment(_, _, _)
RowsWithSegment(rows, i, current_segment) ==
    IF i > Len(rows) THEN <<>>
    ELSE IF Len(rows[i].cells) = 1
         THEN RowsWithSegment(rows, i + 1, NextSegment(current_segment, Lower(rows[i].cells[1])))
         ELSE (IF Len(rows[i].cells) > 1 /\ ~Contains(Lower(rows[i].cells[1]), Lower(Weight_class))
               THEN <<[segment |-> current_segment]>>
               ELSE <<>>)
              \o RowsWithSegment(rows, i + 1, current_segment)

\* C23 for the tables where each segment's data rows are in one block
C23_DocumentOrderWhenNoSegmentRecurs ==
    (kpc = "collected" /\ NoSegmentRecurs(RowsWithSegment(table_rows, 1, "main-card"))) =>
        \A i, j \in 1..Len(raw_fights) :
            i < j => raw_fights[i].fight_data.row < raw_fights[j].fight_data.row

\* C24: every non-empty fight list an adapter's extraction returns is sorted
\* by ascending bout_order, so fights[0] is the fight with bout_order 1
C24_ReturnedListAscending ==
    (fpc = "done" /\ returned_fights # <<>>) =>
        /\ \A i, j \in 1..Len(returned_fights) :
              i < j => returned_fights[i].bout_order < returned_fights[j].bout_order
        /\ returned_fights[1].bout_order = 1

\* C24 for the adapters that end with fights.reverse() and the renumbering
C24_AscendingAfterRenumber ==
    (fpc = "done" /\ path \in {"ufcstats", "ufc_official", "espn"} /\ returned_fights # <<>>) =>
        /\ \A i, j \in 1..Len(returned_fights) :
              i < j => returned_fights[i].bout_order < returned_fights[j].bout_order
        /\ returned_fights[1].bout_order = 1

--------------------------------------------------------------------------
(* Claims about the loop over the candidates *)

KnownTag(event_info) == event_info.source \in Range(AdapterOrder)

\* the candidates the loop has gone through
Handled == SubSeq(discovered_events, 1, details_i - 1)

\* C25: in multi-event mode each candidate leads to exactly one scrape_event
\* call, on the adapter its source tag names and in discovery order, one at
\* a time; the returned events are the non-absent results in that order; a
\* candidate tagged with none of wikipedia, ufcstats, ufc_official yields no
\* call and no event
C25_OneCallPerCandidateInOrder ==
    ~SingleEventMode(s_event_id) =>
        LET known == SelectSeq(Handled, KnownTag)
            results == SelectSeq(ScrapeCalls, LAMBDA c : c.out.value # Absent)
        IN  /\ Len(ScrapeCalls) = Len(known)
            /\ \A k \in 1..Len(known) :
                  /\ ScrapeCalls[k].adapter = known[k].source
                  /\ ScrapeCalls[k].arg = known[k]
            /\ scraped_events = [k \in 1..Len(results) |-> results[k].out.value[1]]
            /\ \A k \in 1..Len(scraped_events) : KnownTag(scraped_events[k].event_info)

\* the loop is over a full list with one candidate of another tag: every
\* other candidate led to a call and gave an event
C25_Witness ==
    /\ spc = "done"
    /\ Len(discovered_events) = MaxCandidates
    /\ ~KnownTag(discovered_events[1])
    /\ Len(ScrapeCalls) = MaxCandidates - 1
    /\ Len(scraped_events) = MaxCandidates - 1

--------------------------------------------------------------------------
(* Claims about the limiter and the requests *)

IsRequest(entry) == entry.kind \in {"get", "head"}

\* C26: every network request an adapter issues, each retry attempt and the
\* HEAD probes of the fighter search included, is immediately preceded by a
\* wait() on the adapter's rate limiter, and the registry build started by
\* the Wikipedia adapter waits on that same limiter
C26_EveryRequestAfterAdapterWait ==
    \A i \in 1..Len(request_log) :
        IsRequest(request_log[i]) =>
            /\ i > 1
            /\ request_log[i - 1] = Waited("adapter")

\* C26 for the requests of _fetch_page: each GET, retries included, follows
\* a wait() on the limiter of the scraper that issues it
C26_EveryGetAfterAWait ==
    \A i \in 1..Len(request_log) :
        request_log[i].kind = "get" =>
            /\ i > 1
            /\ request_log[i - 1] = Waited(LimiterOf(operation))

--------------------------------------------------------------------------
(* Claims about the selector lists *)

\* the selectors that have at least one match on the page
Matching == {i \in 1..Len(match_counts) : match_counts[i] >= 1}

\* the first selector with at least one match is used and none after it is
\* consulted
FirstMatchUsed ==
    /\ used = (IF Matching = {} THEN 0 ELSE SetMin(Matching))
    /\ Range(consulted) = (IF Matching = {} THEN 1..Len(match_counts) ELSE 1..SetMin(Matching))

\* C27: an adapter looking for event entries uses the first selector of its
\* list that yields at least one match and consults no later one; for the
\* UFCStats list also when a selector yields exactly one match
C27_FirstMatchingSelectorUsed ==
    qpc = "selected" => FirstMatchUsed

\* C27 for the UFC.com list
C27_OfficialFirstMatchUsed ==
    (qpc = "selected" /\ select_adapter = "ufc_official") => FirstMatchUsed

\* C27 for the UFCStats list when no selector yields exactly one match
C27_UFCStatsFirstMatchUsedUnlessSingle ==
    (qpc = "selected" /\ select_adapter = "ufcstats"
                      /\ \A i \in 1..Len(match_counts) : match_counts[i] # 1) => FirstMatchUsed

--------------------------------------------------------------------------
(* Claims about a failed discovery fetch *)

\* the first adapter call of the run is the primary source's discovery
PrimaryDiscovery ==
    /\ Len(calls) >= 1
    /\ calls[1].adapter = "wikipedia" /\ calls[1].method = "discover_events"

\* C28: a primary discovery whose fetch failed (all attempts used up) gives
\* the orchestrator the empty list without raising, and from there the run
\* goes as it does after any primary result of zero candidates: UFCStats
\* and then UFC.com are asked, and the candidates kept are the
\* deduplication of what the two gave, in that order.
C28_FailedPrimaryFetchIsZeroCandidates ==
    /\ (PrimaryDiscovery /\ ~calls[1].fetch_ok) => calls[1].out = Outcome(FALSE, <<>>)
    /\ (PrimaryDiscovery /\ (~calls[1].fetch_ok \/ calls[1].out = Outcome(FALSE, <<>>))) =>
          /\ run_output = <<>> \/ run_output.kind = "success"
          /\ Len(calls) = 1 => spc = "discover_ufcstats" /\ s_discovered = <<>>
          /\ Len(calls) >= 2 =>
                calls[2].adapter = "ufcstats" /\ calls[2].method = "discover_events"
          /\ Len(calls) = 2 => spc = "discover_ufc_official"
          /\ Len(calls) >= 3 =>
                /\ calls[3].adapter = "ufc_official" /\ calls[3].method = "discover_events"
                /\ s_discovered = calls[2].out.value \o calls[3].out.value
                /\ discovered_events = DeduplicateEvents(s_discovered)

\* the primary fetch failed, both fallbacks gave candidates and the
\* deduplication dropped one of them
C28_Witness ==
    /\ PrimaryDiscovery /\ ~calls[1].fetch_ok
    /\ Len(calls) >= 3
    /\ calls[2].out.value # <<>> /\ calls[3].out.value # <<>>
    /\ discovered_events # <<>>
    /\ Len(discovered_events) < Len(s_discovered)

--------------------------------------------------------------------------
(* Claims about an event without fights in single-event mode *)

\* the i-th adapter call returned an event whose fight list is empty
ReturnedEmptyCard(i) ==
    /\ calls[i].method = "scrape_event"
    /\ calls[i].out.value # Absent
    /\ calls[i].out.value[1].fights = <<>>

\* C29: in single-event mode an adapter's event with an empty fight list
\* counts as found: it is the result of the run and no adapter after it is
\* called.
C29_EmptyCardEventIsFound ==
    SingleEventMode(s_event_id) =>
        \A i \in 1..Len(calls) :
            ReturnedEmptyCard(i) =>
                /\ i = Len(calls)
                /\ spc \in {"report", "done"}
                /\ scraped_events = <<calls[i].out.value[1]>>
                /\ spc = "done" => run_output = [kind |-> "success", count |-> 1]

\* Wikipedia, the first adapter, returned an event without fights and the
\* run ended with it, UFCStats and UFC.com never asked
C29_Witness ==
    /\ SingleEventMode(s_event_id)
    /\ spc = "done"
    /\ Len(calls) = 1
    /\ calls[1].adapter = "wikipedia"
    /\ ReturnedEmptyCard(1)
    /\ scraped_events = <<[source |-> "wikipedia", fights |-> <<>>]>>

--------------------------------------------------------------------------
(* Claims about a failed save_event *)

\* the statements of save_event that can raise
SaveSteps == {"upsert", "delete", "insert"}

\* C30: when a statement of save_event raises (the event upsert, the
\* deletion of the old fights, the insertion of any fight), the call
\* returns False and the events and fights stored, as committed and as the
\* connection sees them, are what they were when the call began; and
\* nothing is committed before the call's own commit.
C30_FailedSaveChangesNothing ==
    /\ (vpc = "idle" /\ failed_at \in SaveSteps) =>
          /\ save_returned = Some(FALSE)
          /\ conn_tables = before_call
          /\ disk_tables = before_call
    /\ vpc \in {"upsert", "delete", "insert", "except"} => disk_tables = before_call

\* a call failed at the insertion of its second fight, after its event row
\* replaced one of another name, its old fights were deleted and its first
\* fight was inserted; the old row and the old fights are there again
C30_Witness ==
    /\ vpc = "idle"
    /\ failed_at = "insert"
    /\ save_i = 2
    /\ save_returned = Some(FALSE)
    /\ before_call.events[save_arg.event_id] # Absent
    /\ before_call.events[save_arg.event_id] # Some(EventRow(save_arg))
    /\ \E k \in 1..Len(before_call.fights) :
          before_call.fights[k].event_id = save_arg.event_id
    /\ conn_tables = before_call

==========================================================================
